---- MODULE Spec2Model ----
(***************************************************************************)
(* A model of autoesc/context_update.py: the context-tracking lexer for    *)
(* mixed HTML/CSS/JS template text (process_raw_text, _process_next_token, *)
(* the _TRANSITIONS table) and context_union.                              *)
(*                                                                         *)
(* Text is a sequence of characters, each character a one-character        *)
(* string; the characters TLA+ cannot spell (NUL, U+2028, U+2029, VT) are  *)
(* named atoms.  Offsets are Python's: a match [start, end) consumes the   *)
(* characters text[start+1] .. text[end] of the 1-based sequence.          *)
(***************************************************************************)
EXTENDS Integers, Sequences, FiniteSets, TLC

\* ------------------------------------------------------------ characters

Chars(s) == [i \in 1..Len(s) |-> SubSeq(s, i, i)]
CharSet(s) == {SubSeq(s, i, i) : i \in 1..Len(s)}

NUL == "NUL"
LSEP == "U+2028"
PSEP == "U+2029"
VT == "VT"
\* the backquote, which a TLA+ string cannot hold
BACKTICK == "BACKTICK"

LowerAlphabet == "abcdefghijklmnopqrstuvwxyz"
UpperAlphabet == "ABCDEFGHIJKLMNOPQRSTUVWXYZ"
LowerChars == CharSet(LowerAlphabet)
UpperChars == CharSet(UpperAlphabet)
DigitChars == CharSet("0123456789")
AlphaChars == LowerChars \cup UpperChars
AlnumChars == AlphaChars \cup DigitChars
\* \w without re.UNICODE
WordChars == AlnumChars \cup {"_"}
\* \s without re.UNICODE
SpaceChars == {" ", "\t", "\n", "\r", "\f", VT}
\* NLS = u"\n\r\u2028\u2029"
NLS == {"\n", "\r", LSEP, PSEP}

LowerOf == [c \in UpperChars |->
              LET i == CHOOSE k \in 1..26 : SubSeq(UpperAlphabet, k, k) = c
              IN SubSeq(LowerAlphabet, i, i)]
ToLower(c) == IF c \in UpperChars THEN LowerOf[c] ELSE c
LowerSeq(t) == [i \in 1..Len(t) |-> ToLower(t[i])]

\* text[:n] and text[n:]
Prefix(text, n) == SubSeq(text, 1, n)
Suffix(text, n) == SubSeq(text, n + 1, Len(text))

SetMin(S) == CHOOSE x \in S : \A y \in S : x <= y

\* text.find(lit) style helpers -------------------------------------------
\* the literal lit (a character sequence) occurs at offset i
LitAt(text, i, lit) ==
    /\ i >= 0
    /\ i + Len(lit) <= Len(text)
    /\ \A k \in 1..Len(lit) : text[i + k] = lit[k]
\* the same, ignoring case ((?i) with a lower-case literal)
LitAtI(text, i, lit) ==
    /\ i >= 0
    /\ i + Len(lit) <= Len(text)
    /\ \A k \in 1..Len(lit) : ToLower(text[i + k]) = lit[k]
\* the character at offset i exists and lies in class S
InAt(text, i, S) == i >= 0 /\ i < Len(text) /\ text[i + 1] \in S
\* the character at offset i exists and lies outside S
NotInAt(text, i, S) == i >= 0 /\ i < Len(text) /\ text[i + 1] \notin S
AtEnd(text, i) == i = Len(text)
\* the end of the maximal run of characters of S that starts at offset i
RunEnd(text, i, S) ==
    SetMin({j \in i..Len(text) : j = Len(text) \/ text[j + 1] \notin S})
\* the end of the maximal run of characters outside S that starts at offset i
RunEndNot(text, i, S) ==
    SetMin({j \in i..Len(text) : j = Len(text) \/ text[j + 1] \in S})
\* does the sequence needle occur in text
Contains(text, needle) ==
    \E i \in 0..(Len(text) - Len(needle)) : LitAt(text, i, needle)
\* number of occurrences of character c
Count(text, c) == Cardinality({i \in 1..Len(text) : text[i] = c})

\* -------------------------------------------------------------- contexts
\* autoesc.context packs six fields into one integer; the model keeps them
\* as the fields of a record.  The all-zero value of each field is the first
\* one listed.

States == {"TEXT", "RCDATA", "HTML_BEFORE_TAG_NAME", "TAG_NAME", "TAG",
           "ATTR_NAME", "AFTER_NAME", "BEFORE_VALUE", "ATTR", "HTMLCMT",
           "CSS", "CSSBLOCK_CMT", "CSSLINE_CMT", "CSSDQ_STR", "CSSSQ_STR",
           "CSS_URL", "CSSDQ_URL", "CSSSQ_URL",
           "JS", "JSBLOCK_CMT", "JSLINE_CMT", "JSDQ_STR", "JSSQ_STR",
           "JSREGEXP", "URL", "ERROR"}
Elements == {"NONE", "SCRIPT", "STYLE", "LISTING", "TEXTAREA", "TITLE",
             "XMP", "CLOSE"}
AttrKinds == {"NONE", "SCRIPT", "STYLE", "URL", "PLAIN"}
Delims == {"NONE", "DOUBLE_QUOTE", "SINGLE_QUOTE", "SPACE_OR_TAG_END"}
UrlParts == {"NONE", "PRE_QUERY", "QUERY_OR_FRAG", "UNKNOWN"}
JsCtxs == {"REGEX", "DIV_OP", "UNKNOWN"}

JS_CTX_REGEX == "REGEX"
JS_CTX_DIV_OP == "DIV_OP"
JS_CTX_UNKNOWN == "UNKNOWN"
URL_PART_NONE == "NONE"
URL_PART_PRE_QUERY == "PRE_QUERY"
URL_PART_QUERY_OR_FRAG == "QUERY_OR_FRAG"
URL_PART_UNKNOWN == "UNKNOWN"
DELIM_NONE == "NONE"
DELIM_DOUBLE_QUOTE == "DOUBLE_QUOTE"
DELIM_SINGLE_QUOTE == "SINGLE_QUOTE"
DELIM_SPACE_OR_TAG_END == "SPACE_OR_TAG_END"
ATTR_NONE == "NONE"
ATTR_SCRIPT == "SCRIPT"
ATTR_STYLE == "STYLE"
ATTR_URL == "URL"
ELEMENT_NONE == "NONE"

\* a bare STATE_x constant: every other field zero
StateCtx(s) ==
    [state |-> s, element |-> ELEMENT_NONE, attr |-> ATTR_NONE,
     delim |-> DELIM_NONE, url_part |-> URL_PART_NONE, js_ctx |-> JS_CTX_REGEX]
STATE_TEXT == StateCtx("TEXT")
STATE_TAG == StateCtx("TAG")
STATE_ERROR == StateCtx("ERROR")

\* STATE_x | ELEMENT_y
WithElement(c, e) == [c EXCEPT !.element = e]

state_of(c) == c.state
element_type_of(c) == c.element
attr_type_of(c) == c.attr
delim_type_of(c) == c.delim
url_part_of(c) == c.url_part
js_ctx_of(c) == c.js_ctx
is_error_context(c) == state_of(c) = "ERROR"

\* DELIM_TEXT: the literal that closes a value of each delimiter type
DELIM_TEXT(d) ==
    CASE d = DELIM_DOUBLE_QUOTE -> <<"\"">>
      [] d = DELIM_SINGLE_QUOTE -> <<"'">>
      [] OTHER -> <<>>

\* the context on entering an attribute value of the given kind
after_attr_delimiter(el, attr, delim) ==
    LET base == [StateCtx("ATTR") EXCEPT !.element = el, !.attr = attr,
                                         !.delim = delim]
    IN CASE attr = ATTR_SCRIPT ->
              [base EXCEPT !.state = "JS", !.js_ctx = JS_CTX_REGEX]
         [] attr = ATTR_STYLE -> [base EXCEPT !.state = "CSS"]
         [] attr = ATTR_URL ->
              [base EXCEPT !.state = "URL", !.url_part = URL_PART_NONE]
         [] OTHER -> base

\* -------------------------------------------------------------- patterns
\* A match of pattern.search(text): start and end offsets and capture group
\* 1 (empty when the group did not take part).  no match: start = -1.

NoMatch == [start |-> -1, end |-> -1, g1 |-> <<>>]
Match(s, e) == [start |-> s, end |-> e, g1 |-> <<>>]
MatchG(s, e, g) == [start |-> s, end |-> e, g1 |-> g]
\* an anchored pattern (\A...) whose match, if any, ends at e (e = -1: none)
Anchored(e) == IF e >= 0 THEN Match(0, e) ELSE NoMatch
\* an unanchored pattern: the leftmost offset at which EndAt gives an end
Leftmost(text, EndAt(_, _)) ==
    LET S == {i \in 0..Len(text) : EndAt(text, i) >= 0}
    IN IF S = {} THEN NoMatch ELSE Match(SetMin(S), EndAt(text, SetMin(S)))

L_CMT_OPEN == Chars("<!--")
L_CMT_CLOSE == Chars("-->")
L_DOCTYPE == Chars("!doctype")
L_SCRIPT_END == Chars("</script")
L_SLASH_SCRIPT == Chars("/script")
L_STYLE_END == Chars("</style")
L_URL == Chars("url")
NameChars == AlphaChars \cup {"-"}

E_Lit(t, i, lit) == IF LitAt(t, i, lit) THEN i + Len(lit) ELSE -1
E_Class(t, i, S) == IF InAt(t, i, S) THEN i + 1 ELSE -1
E_Run(t, i, S) == IF InAt(t, i, S) THEN RunEnd(t, i, S) ELSE -1

\* (?i)<name(?![a-z\-])
E_TagOpen(t, i, name) ==
    IF LitAtI(t, i, name) /\ ~InAt(t, i + Len(name), NameChars)
    THEN i + Len(name) ELSE -1
E_OpenScript(t, i) == E_TagOpen(t, i, Chars("<script"))
E_OpenStyle(t, i) == E_TagOpen(t, i, Chars("<style"))
E_OpenTextarea(t, i) == E_TagOpen(t, i, Chars("<textarea"))
E_OpenTitle(t, i) == E_TagOpen(t, i, Chars("<title"))
E_OpenXmp(t, i) == E_TagOpen(t, i, Chars("<xmp"))
\* the lookahead /?(?:[a-z]|\Z)|!doctype of the stray-'<' rule, at offset p
TagStartAhead(t, p) ==
    \/ InAt(t, p, AlphaChars)
    \/ AtEnd(t, p)
    \/ (InAt(t, p, {"/"}) /\ (InAt(t, p + 1, AlphaChars) \/ AtEnd(t, p + 1)))
    \/ LitAtI(t, p, L_DOCTYPE)
\* (?i)<(?!/?(?:[a-z]|\Z)|!doctype)
E_StrayLt(t, i) ==
    IF InAt(t, i, {"<"}) /\ ~TagStartAhead(t, i + 1) THEN i + 1 ELSE -1
E_CmtOpen(t, i) == E_Lit(t, i, L_CMT_OPEN)
E_CmtClose(t, i) == E_Lit(t, i, L_CMT_CLOSE)
E_LtSlash(t, i) == E_Lit(t, i, <<"<", "/">>)
E_Lt(t, i) == E_Class(t, i, {"<"})
E_DQ(t, i) == E_Class(t, i, {"\""})
E_SQ(t, i) == E_Class(t, i, {"'"})
E_Slash(t, i) == E_Class(t, i, {"/"})
E_SlashStar(t, i) == E_Lit(t, i, <<"/", "*">>)
E_SlashSlash(t, i) == E_Lit(t, i, <<"/", "/">>)
E_StarSlash(t, i) == E_Lit(t, i, <<"*", "/">>)
E_CssNl(t, i) == E_Class(t, i, {"\n", "\f", "\r"})
E_JsNl(t, i) == E_Class(t, i, NLS)
E_CssUrlEnd(t, i) == E_Class(t, i, {"\\", ")"} \cup SpaceChars)
E_Quote(t, i) == E_Class(t, i, {"\"", "'"})
E_AttrNameRun(t, i) == E_Run(t, i, AlnumChars \cup {"-"})
E_SpaceRun(t, i) == E_Run(t, i, SpaceChars)
\* (?i)<\/script\b and (?i)<\/style\b
E_ScriptEnd(t, i) ==
    IF LitAtI(t, i, L_SCRIPT_END) /\ ~InAt(t, i + 8, WordChars)
    THEN i + 8 ELSE -1
E_StyleEnd(t, i) ==
    IF LitAtI(t, i, L_STYLE_END) /\ ~InAt(t, i + 7, WordChars)
    THEN i + 7 ELSE -1
\* \\(?:\r\n?|[\n\f\"]) and its single-quote twin
E_CssEscape(t, i, q) ==
    IF ~InAt(t, i, {"\\"}) THEN -1
    ELSE IF InAt(t, i + 1, {"\r"})
         THEN (IF InAt(t, i + 2, {"\n"}) THEN i + 3 ELSE i + 2)
    ELSE IF InAt(t, i + 1, {"\n", "\f", q}) THEN i + 2
    ELSE -1
E_CssEscapeDQ(t, i) == E_CssEscape(t, i, "\"")
E_CssEscapeSQ(t, i) == E_CssEscape(t, i, "'")
\* one unit of (?:[^<\/\"\'\s\\]|<(?!\/script)) under (?i)
JsPuncUnit(t, p) ==
    \/ NotInAt(t, p, {"<", "/", "\"", "'", "\\"} \cup SpaceChars)
    \/ InAt(t, p, {"<"}) /\ ~LitAtI(t, p + 1, L_SLASH_SCRIPT)
E_JsPunc(t, i) ==
    IF JsPuncUnit(t, i)
    THEN SetMin({j \in (i + 1)..Len(t) : j = Len(t) \/ ~JsPuncUnit(t, j)})
    ELSE -1

\* one iteration of the body of the JS string patterns, from offset p:
\*   [^q\\NLS<] | \\(?:\r\n?|[^\r<]|<(?!/script)) | <(?!/script)    under (?i)
\* the offset after it, or -1
JsStrUnit(t, p, q) ==
    IF NotInAt(t, p, {q, "\\", "<"} \cup NLS) THEN p + 1
    ELSE IF InAt(t, p, {"\\"})
         THEN (IF InAt(t, p + 1, {"\r"})
               THEN (IF InAt(t, p + 2, {"\n"}) THEN p + 3 ELSE p + 2)
               ELSE IF NotInAt(t, p + 1, {"\r", "<"}) THEN p + 2
               ELSE IF InAt(t, p + 1, {"<"})
                       /\ ~LitAtI(t, p + 2, L_SLASH_SCRIPT) THEN p + 2
               ELSE -1)
    ELSE IF InAt(t, p, {"<"}) /\ ~LitAtI(t, p + 1, L_SLASH_SCRIPT) THEN p + 1
    ELSE -1
RECURSIVE JsStrRun(_, _, _)
JsStrRun(t, p, q) ==
    LET n == JsStrUnit(t, p, q) IN IF n < 0 THEN p ELSE JsStrRun(t, n, q)
\* \A(?: ... )+ : at least one iteration
E_JsStrBody(t, q) == IF JsStrUnit(t, 0, q) < 0 THEN -1 ELSE JsStrRun(t, 0, q)

\* the body of a [...] character set: (?:[^\]\\<NLS]|\\(?:[^NLS]))*
RECURSIVE JsCharsetRun(_, _)
JsCharsetRun(t, p) ==
    IF NotInAt(t, p, {"]", "\\", "<"} \cup NLS) THEN JsCharsetRun(t, p + 1)
    ELSE IF InAt(t, p, {"\\"}) /\ NotInAt(t, p + 1, NLS)
         THEN JsCharsetRun(t, p + 2)
    ELSE p
\* one iteration of the body of the JSREGEXP pattern (no (?i) here):
\*   [^\[\\/<NLS] | \\[^NLS] | \\?<(?!/script) | \[(?:...)* | \\?<(?!/script)\]
JsRegexUnit(t, p) ==
    IF NotInAt(t, p, {"[", "\\", "/", "<"} \cup NLS) THEN p + 1
    ELSE IF InAt(t, p, {"\\"}) /\ NotInAt(t, p + 1, NLS) THEN p + 2
    ELSE IF InAt(t, p, {"<"}) /\ ~LitAt(t, p + 1, L_SLASH_SCRIPT) THEN p + 1
    ELSE IF InAt(t, p, {"["}) THEN JsCharsetRun(t, p + 1)
    ELSE -1
RECURSIVE JsRegexRun(_, _)
JsRegexRun(t, p) ==
    LET n == JsRegexUnit(t, p) IN IF n < 0 THEN p ELSE JsRegexRun(t, n)
E_JsRegexBody(t) == IF JsRegexUnit(t, 0) < 0 THEN -1 ELSE JsRegexRun(t, 0)

\* \A[A-Za-z0-9:-]*(?:[A-Za-z0-9]|\Z): the greedy run, backed off to its
\* last alphanumeric unless it reaches the end of the text
E_TagNameRun(t) ==
    LET r == RunEnd(t, 0, AlnumChars \cup {":", "-"})
        K == {k \in 1..r : t[k] \in AlnumChars}
    IN IF r = Len(t) THEN r
       ELSE IF K = {} THEN -1
       ELSE CHOOSE k \in K : \A j \in K : j <= k

\* \A\s*([A-Za-z][\w:-]*)
M_AttrName(t) ==
    LET w == RunEnd(t, 0, SpaceChars)
        e == RunEnd(t, w + 1, WordChars \cup {":", "-"})
    IN IF InAt(t, w, AlphaChars) THEN MatchG(0, e, SubSeq(t, w + 1, e))
       ELSE NoMatch
\* \A\s*\/?>
E_TagEnd(t) ==
    LET w == RunEnd(t, 0, SpaceChars)
        p == IF InAt(t, w, {"/"}) THEN w + 1 ELSE w
    IN IF InAt(t, p, {">"}) THEN p + 1 ELSE -1
\* \A\s*c for a single character c
E_SpaceThen(t, c) ==
    LET w == RunEnd(t, 0, SpaceChars)
    IN IF InAt(t, w, {c}) THEN w + 1 ELSE -1

\* (?i)</([a-z\-]+)(?![a-z\-])
E_RcdataEnd(t, i) ==
    IF LitAt(t, i, <<"<", "/">>) /\ InAt(t, i + 2, NameChars)
    THEN RunEnd(t, i + 2, NameChars) ELSE -1
M_RcdataEnd(t) ==
    LET m == Leftmost(t, E_RcdataEnd)
    IN IF m.start < 0 THEN NoMatch
       ELSE MatchG(m.start, m.end, SubSeq(t, m.start + 3, m.end))

\* (?i)\burl\s*\(\s*([\"\']?)
E_CssUri(t, i) ==
    LET a == RunEnd(t, i + 3, SpaceChars)
        b == RunEnd(t, a + 1, SpaceChars)
    IN IF /\ LitAtI(t, i, L_URL)
          /\ (i = 0 \/ t[i] \notin WordChars)
          /\ InAt(t, a, {"("})
       THEN (IF InAt(t, b, {"\"", "'"}) THEN b + 1 ELSE b)
       ELSE -1
M_CssUri(t) ==
    LET m == Leftmost(t, E_CssUri)
    IN IF m.start < 0 THEN NoMatch
       ELSE MatchG(m.start, m.end,
                   IF m.end > 0 /\ t[m.end] \in {"\"", "'"}
                   THEN <<t[m.end]>> ELSE <<>>)

\* ([?#])|\Z
E_UrlPart(t, i) ==
    IF InAt(t, i, {"?", "#"}) THEN i + 1
    ELSE IF AtEnd(t, i) THEN i ELSE -1
\* ([?#]|\\(?:23|3[fF]|[?#]))|\Z
E_CssUrlPart(t, i) ==
    IF InAt(t, i, {"?", "#"}) THEN i + 1
    ELSE IF InAt(t, i, {"\\"}) /\ InAt(t, i + 1, {"?", "#"}) THEN i + 2
    ELSE IF InAt(t, i, {"\\"})
            /\ (LitAt(t, i + 1, <<"2", "3">>)
                \/ LitAt(t, i + 1, <<"3", "f">>)
                \/ LitAt(t, i + 1, <<"3", "F">>)) THEN i + 3
    ELSE IF AtEnd(t, i) THEN i ELSE -1
\* group 1 is the whole match unless the match is the empty \Z
WithGroupAll(t, m) ==
    IF m.start < 0 THEN NoMatch
    ELSE MatchG(m.start, m.end, SubSeq(t, m.start + 1, m.end))

\* The regular expressions of the _TRANSITIONS table, each named by its
\* source text, and pattern.search(text) for each of them.
RE_TEXT_RUN == "\\A[^<]+"
RE_CMT_OPEN == "<!--"
RE_OPEN_SCRIPT == "(?i)<script(?![a-z\\-])"
RE_OPEN_STYLE == "(?i)<style(?![a-z\\-])"
RE_OPEN_TEXTAREA == "(?i)<textarea(?![a-z\\-])"
RE_OPEN_TITLE == "(?i)<title(?![a-z\\-])"
RE_OPEN_XMP == "(?i)<xmp(?![a-z\\-])"
RE_STRAY_LT == "(?i)<(?!/?(?:[a-z]|\\Z)|!doctype)"
RE_LT_SLASH == "</"
RE_LT == "<"
RE_RCDATA_END == "(?i)</([a-z\\-]+)(?![a-z\\-])"
RE_END == "\\Z"
RE_TAG_NAME_START == "\\A[A-Za-z]+"
RE_NOT_TAG_NAME == "\\A(?=[^A-Za-z])"
RE_TAG_NAME_RUN == "\\A[A-Za-z0-9:-]*(?:[A-Za-z0-9]|\\Z)"
RE_TAG_NAME_END == "\\A(?=[\\/\\s>])"
RE_ATTR_NAME == "\\A\\s*([A-Za-z][\\w:-]*)"
RE_TAG_END == "\\A\\s*\\/?>"
RE_ALL_SPACE == "\\A\\s+\\Z"
RE_ATTR_NAME_RUN == "[A-Za-z0-9\\-]+"
RE_START == "\\A"
RE_EQ == "\\A\\s*="
RE_SPACES == "\\A\\s+"
RE_VALUE_DQ == "\\A\\s*[\"]"
RE_VALUE_SQ == "\\A\\s*[\\']"
\* the source spells \x60 as a literal backquote
RE_VALUE_UNQUOTED == "\\A(?=[^=\\\"\\'\\x60\\s>])"
RE_VALUE_EMPTY == "\\A(?=/?>)"
RE_CMT_CLOSE == "-->"
RE_SLASH_STAR == "\\/\\*"
RE_SLASH_SLASH == "\\/\\/"
RE_DQ == "[\"]"
RE_SQ == "[\\']"
RE_CSS_URI == "(?i)\\burl\\s*\\(\\s*([\\\"\\']?)"
RE_STYLE_TAG_END == "(?i)<\\/style\\b"
RE_STAR_SLASH == "\\*\\/"
RE_CSS_NL == "[\\n\\f\\r]"
RE_CSS_ESC_DQ == "\\\\(?:\\r\\n?|[\\n\\f\\\"])"
RE_CSS_ESC_SQ == "\\\\(?:\\r\\n?|[\\n\\f\\'])"
RE_CSSURL_PART == "([?#]|\\\\(?:23|3[fF]|[?#]))|\\Z"
RE_CSS_NL_ERR == "[\\n\\r\\f]"
RE_CSS_URL_END == "[\\\\)\\s]"
RE_QUOTE == "[\\\"\\']"
RE_JS_SLASH_STAR == "/[*]"
RE_JS_SLASH_SLASH == "//"
RE_SLASH == "/"
RE_JS_PUNC == "(?i)(?:[^<\\/\\\"\\'\\s\\\\]|<(?!\\/script))+"
RE_JS_SPACE == "\\s+"
RE_SCRIPT_TAG_END == "(?i)<\\/script\\b"
RE_JS_STAR_SLASH == "[*]/"
RE_JS_NL == "[\\n\\r\\u2028\\u2029]"
RE_JSDQ_BODY == "(?i)\\A(?:[^\\\"\\\\NLS<]|\\\\(?:\\r\\n?|[^\\r<]|<(?!/script))|<(?!/script))+"
RE_JSSQ_BODY == "(?i)\\A(?:[^\\'\\\\NLS<]|\\\\(?:\\r\\n?|[^\\r<]|<(?!/script))|<(?!/script))+"
RE_JSREGEXP_BODY == "\\A(?:[^\\[\\\\/<NLS]|\\\\[^NLS]|\\\\?<(?!/script)|\\[(?:[^\\]\\\\<NLS]|\\\\(?:[^NLS]))*|\\\\?<(?!/script)\\])+"
RE_URL_PART == "([?#])|\\Z"

PatternSearch(re, t) ==
    CASE re = RE_TEXT_RUN ->
           Anchored(IF NotInAt(t, 0, {"<"}) THEN RunEndNot(t, 0, {"<"}) ELSE -1)
      [] re = RE_CMT_OPEN -> Leftmost(t, E_CmtOpen)
      [] re = RE_OPEN_SCRIPT -> Leftmost(t, E_OpenScript)
      [] re = RE_OPEN_STYLE -> Leftmost(t, E_OpenStyle)
      [] re = RE_OPEN_TEXTAREA -> Leftmost(t, E_OpenTextarea)
      [] re = RE_OPEN_TITLE -> Leftmost(t, E_OpenTitle)
      [] re = RE_OPEN_XMP -> Leftmost(t, E_OpenXmp)
      [] re = RE_STRAY_LT -> Leftmost(t, E_StrayLt)
      [] re = RE_LT_SLASH -> Leftmost(t, E_LtSlash)
      [] re = RE_LT -> Leftmost(t, E_Lt)
      [] re = RE_RCDATA_END -> M_RcdataEnd(t)
      [] re = RE_END -> Match(Len(t), Len(t))
      [] re = RE_TAG_NAME_START -> Anchored(E_Run(t, 0, AlphaChars))
      [] re = RE_NOT_TAG_NAME ->
           Anchored(IF NotInAt(t, 0, AlphaChars) THEN 0 ELSE -1)
      [] re = RE_TAG_NAME_RUN -> Anchored(E_TagNameRun(t))
      [] re = RE_TAG_NAME_END ->
           Anchored(IF InAt(t, 0, {"/", ">"} \cup SpaceChars) THEN 0 ELSE -1)
      [] re = RE_ATTR_NAME -> M_AttrName(t)
      [] re = RE_TAG_END -> Anchored(E_TagEnd(t))
      [] re = RE_ALL_SPACE ->
           Anchored(IF Len(t) > 0 /\ RunEnd(t, 0, SpaceChars) = Len(t)
                    THEN Len(t) ELSE -1)
      [] re = RE_ATTR_NAME_RUN -> Leftmost(t, E_AttrNameRun)
      [] re = RE_START -> Match(0, 0)
      [] re = RE_EQ -> Anchored(E_SpaceThen(t, "="))
      [] re = RE_SPACES -> Anchored(E_Run(t, 0, SpaceChars))
      [] re = RE_VALUE_DQ -> Anchored(E_SpaceThen(t, "\""))
      [] re = RE_VALUE_SQ -> Anchored(E_SpaceThen(t, "'"))
      [] re = RE_VALUE_UNQUOTED ->
           Anchored(IF NotInAt(t, 0, {"=", "\"", "'", BACKTICK, ">"} \cup SpaceChars)
                    THEN 0 ELSE -1)
      [] re = RE_VALUE_EMPTY ->
           Anchored(IF InAt(t, 0, {">"}) \/ LitAt(t, 0, <<"/", ">">>)
                    THEN 0 ELSE -1)
      [] re = RE_CMT_CLOSE -> Leftmost(t, E_CmtClose)
      [] re \in {RE_SLASH_STAR, RE_JS_SLASH_STAR} -> Leftmost(t, E_SlashStar)
      [] re \in {RE_SLASH_SLASH, RE_JS_SLASH_SLASH} -> Leftmost(t, E_SlashSlash)
      [] re = RE_DQ -> Leftmost(t, E_DQ)
      [] re = RE_SQ -> Leftmost(t, E_SQ)
      [] re = RE_CSS_URI -> M_CssUri(t)
      [] re = RE_STYLE_TAG_END -> Leftmost(t, E_StyleEnd)
      [] re \in {RE_STAR_SLASH, RE_JS_STAR_SLASH} -> Leftmost(t, E_StarSlash)
      [] re \in {RE_CSS_NL, RE_CSS_NL_ERR} -> Leftmost(t, E_CssNl)
      [] re = RE_CSS_ESC_DQ -> Leftmost(t, E_CssEscapeDQ)
      [] re = RE_CSS_ESC_SQ -> Leftmost(t, E_CssEscapeSQ)
      [] re = RE_CSSURL_PART -> WithGroupAll(t, Leftmost(t, E_CssUrlPart))
      [] re = RE_CSS_URL_END -> Leftmost(t, E_CssUrlEnd)
      [] re = RE_QUOTE -> Leftmost(t, E_Quote)
      [] re = RE_SLASH -> Leftmost(t, E_Slash)
      [] re = RE_JS_PUNC -> Leftmost(t, E_JsPunc)
      [] re = RE_JS_SPACE -> Leftmost(t, E_SpaceRun)
      [] re = RE_SCRIPT_TAG_END -> Leftmost(t, E_ScriptEnd)
      [] re = RE_JS_NL -> Leftmost(t, E_JsNl)
      [] re = RE_JSDQ_BODY -> Anchored(E_JsStrBody(t, "\""))
      [] re = RE_JSSQ_BODY -> Anchored(E_JsStrBody(t, "'"))
      [] re = RE_JSREGEXP_BODY -> Anchored(E_JsRegexBody(t))
      [] re = RE_URL_PART -> WithGroupAll(t, Leftmost(t, E_UrlPart))

\* --------------------------------------------------------- collaborators
\* html.attr_type, html.unescape_html, js.next_js_ctx and the escapers of
\* autoesc.escaping are called through narrow interfaces.

CONTENT_KIND_JS == "JS"
CONTENT_KIND_CSS == "CSS"
CONTENT_KIND_URL == "URL"
CONTENT_KIND_PLAIN == "PLAIN"
UrlAttrNames == {Chars("href"), Chars("src"), Chars("action")}
\* html.attr_type(name): on* -> JS, style -> CSS, href|src|action -> URL
attr_type(name) ==
    LET n == LowerSeq(name)
    IN IF LitAt(n, 0, <<"o", "n">>) THEN CONTENT_KIND_JS
       ELSE IF n = Chars("style") THEN CONTENT_KIND_CSS
       ELSE IF n \in UrlAttrNames THEN CONTENT_KIND_URL
       ELSE CONTENT_KIND_PLAIN

Entities == << <<Chars("&quot;"), "\"">>, <<Chars("&amp;"), "&">>,
               <<Chars("&lt;"), "<">>, <<Chars("&gt;"), ">">>,
               <<Chars("&#39;"), "'">>, <<Chars("&apos;"), "'">> >>
\* variant: the attribute value is scanned as it is spelled
unescape_html_Undecoded(s) == s

\* html.unescape_html(s): entity references replaced by their characters
RECURSIVE unescape_html(_)
unescape_html(s) ==
    IF s = <<>> THEN <<>>
    ELSE LET E == {k \in 1..Len(Entities) : LitAt(s, 0, Entities[k][1])}
         IN IF E = {} THEN <<Head(s)>> \o unescape_html(Tail(s))
            ELSE LET k == SetMin(E)
                 IN <<Entities[k][2]>>
                    \o unescape_html(Suffix(s, Len(Entities[k][1])))
\* escaping.escape_html_dq_only(s) and escape_html_sq_only(s): the one quote
\* character that would end the value is replaced by its entity
RECURSIVE escape_html_dq_only(_)
escape_html_dq_only(s) ==
    IF s = <<>> THEN <<>>
    ELSE (IF Head(s) = "\"" THEN Chars("&quot;") ELSE <<Head(s)>>)
         \o escape_html_dq_only(Tail(s))
RECURSIVE escape_html_sq_only(_)
escape_html_sq_only(s) ==
    IF s = <<>> THEN <<>>
    ELSE (IF Head(s) = "'" THEN Chars("&#39;") ELSE <<Head(s)>>)
         \o escape_html_sq_only(Tail(s))

RegexPrecederPunc == CharSet(",<>=*%&|^?!~([:;{}")
RegexPrecederKeywords ==
    {Chars("break"), Chars("case"), Chars("continue"), Chars("delete"),
     Chars("do"), Chars("else"), Chars("finally"), Chars("in"),
     Chars("instanceof"), Chars("return"), Chars("throw"), Chars("try"),
     Chars("typeof"), Chars("void")}
\* the start offset of the maximal run of characters of S that ends text
TrailingRunStart(t, S) ==
    SetMin({j \in 0..Len(t) : \A k \in (j + 1)..Len(t) : t[k] \in S})
\* js.next_js_ctx(token, prior): the js-ctx after a run of JS tokens, by the
\* regex-preceder rules: punctuation and keywords that precede a regex,
\* identifiers, numbers and closers that precede a division
next_js_ctx(token, prior) ==
    LET n == Len(token)
        last == token[n]
        run == n - TrailingRunStart(token, {last})
        word == Suffix(token, TrailingRunStart(token, WordChars \cup {"$"}))
        js == IF last \in {"+", "-"}
              THEN (IF run % 2 = 1 THEN JS_CTX_REGEX ELSE JS_CTX_DIV_OP)
              ELSE IF last = "."
              THEN (IF n > 1 /\ token[n - 1] \in DigitChars
                    THEN JS_CTX_DIV_OP ELSE JS_CTX_REGEX)
              ELSE IF last \in RegexPrecederPunc THEN JS_CTX_REGEX
              ELSE IF word \in RegexPrecederKeywords THEN JS_CTX_REGEX
              ELSE JS_CTX_DIV_OP
    IN IF n = 0 THEN prior ELSE [prior EXCEPT !.js_ctx = js]

\* ------------------------------------------------------ transition rules
\* Each _Transition subclass is a record constructor; compute_next_context,
\* is_applicable_to and raw_text dispatch on the class.

_ToTransition(regex, dest) ==
    [cls |-> "_ToTransition", pattern |-> regex, dest |-> dest]
_ToTagTransition(regex, context) ==
    [cls |-> "_ToTagTransition", pattern |-> regex, context |-> context]
_NormalizeTransition(transition, repl, replace_whole) ==
    [cls |-> "_NormalizeTransition", pattern |-> transition.pattern,
     transition |-> transition, repl |-> repl, replace_whole |-> replace_whole]
_NormalizeJsBlockCommentTransition(transition) ==
    [cls |-> "_NormalizeJsBlockCommentTransition",
     pattern |-> transition.pattern, transition |-> transition,
     repl |-> <<>>, replace_whole |-> TRUE]
_TagDoneTransition(regex) == [cls |-> "_TagDoneTransition", pattern |-> regex]
_TransitionBackToTag(regex) ==
    [cls |-> "_TransitionBackToTag", pattern |-> regex]
_TransitionToAttrName(regex) ==
    [cls |-> "_TransitionToAttrName", pattern |-> regex]
_TransitionToAttrValue(regex, delim) ==
    [cls |-> "_TransitionToAttrValue", pattern |-> regex, delim |-> delim]
_TransitionToState(regex, state) ==
    [cls |-> "_TransitionToState", pattern |-> regex, state |-> state]
_TransitionToJsString(regex, state) ==
    [cls |-> "_TransitionToJsString", pattern |-> regex, state |-> state]
_SlashTransition(regex) == [cls |-> "_SlashTransition", pattern |-> regex]
_JsPuncTransition(regex) == [cls |-> "_JsPuncTransition", pattern |-> regex]
_TransitionToSelf(regex) == [cls |-> "_TransitionToSelf", pattern |-> regex]
_URLPartTransition(regex) == [cls |-> "_URLPartTransition", pattern |-> regex]
_EndTagTransition(regex) == [cls |-> "_EndTagTransition", pattern |-> regex]
_RcdataEndTagTransition(regex) ==
    [cls |-> "_RcdataEndTagTransition", pattern |-> regex]
_CssUriTransition(regex) == [cls |-> "_CssUriTransition", pattern |-> regex]
_DivPreceder(regex) == [cls |-> "_DivPreceder", pattern |-> regex]

_TRANSITION_TO_SELF == _TransitionToSelf(RE_END)
_URL_PART_TRANSITION == _URLPartTransition(RE_URL_PART)
_CSSURL_PART_TRANSITION == _URLPartTransition(RE_CSSURL_PART)
_SCRIPT_TAG_END == _EndTagTransition(RE_SCRIPT_TAG_END)
_STYLE_TAG_END == _EndTagTransition(RE_STYLE_TAG_END)

\* the body context of each element, without the element bits; ELEMENT_CLOSE
\* has no entry
_TAG_DONE_ELEMENT_TO_PARTIAL_CONTEXT(el) ==
    CASE el = "NONE" -> StateCtx("TEXT")
      [] el = "SCRIPT" -> [StateCtx("JS") EXCEPT !.js_ctx = JS_CTX_REGEX]
      [] el = "STYLE" -> StateCtx("CSS")
      [] el \in {"LISTING", "TEXTAREA", "TITLE", "XMP"} -> StateCtx("RCDATA")
_ELEMENT_TO_TAG_NAME(el) ==
    CASE el = "TEXTAREA" -> Chars("textarea")
      [] el = "TITLE" -> Chars("title")
      [] el = "LISTING" -> Chars("listing")
      [] el = "XMP" -> Chars("xmp")
      [] OTHER -> <<"None">>

_TagDoneTransition_next(prior) ==
    WithElement(_TAG_DONE_ELEMENT_TO_PARTIAL_CONTEXT(element_type_of(prior)),
                element_type_of(prior))
\* variant: the epsilon transition out of AFTER_NAME and BEFORE_VALUE goes
\* back to the attribute name
_TransitionBackToTag_next_ToAttrName(prior) ==
    [prior EXCEPT !.state = "ATTR_NAME"]
\* variant: only the state is reset on the way back to the tag
_TransitionBackToTag_next_KeepsAttr(prior) == [prior EXCEPT !.state = "TAG"]
_TransitionBackToTag_next(prior) ==
    WithElement(STATE_TAG, element_type_of(prior))
_TransitionToAttrName_next(prior, m) ==
    LET content_kind == attr_type(m.g1)
        attr == CASE content_kind = CONTENT_KIND_JS -> ATTR_SCRIPT
                  [] content_kind = CONTENT_KIND_CSS -> ATTR_STYLE
                  [] content_kind = CONTENT_KIND_URL -> ATTR_URL
                  [] OTHER -> attr_type_of(prior)
    IN [StateCtx("ATTR_NAME") EXCEPT !.element = element_type_of(prior),
                                     !.attr = attr]
_TransitionToState_next(state, prior) ==
    [prior EXCEPT !.url_part = URL_PART_NONE, !.state = state]
_TransitionToJsString_next(state, prior) ==
    [StateCtx(state) EXCEPT !.element = prior.element, !.attr = prior.attr,
                            !.delim = prior.delim]
\* variant: a '/' after a value goes straight into the regular expression
_SlashTransition_next_ToRegexp(prior) ==
    [prior EXCEPT !.state = "JSREGEXP", !.js_ctx = JS_CTX_REGEX]
_SlashTransition_next(prior) ==
    IF js_ctx_of(prior) = JS_CTX_DIV_OP
    THEN [prior EXCEPT !.state = "JS", !.js_ctx = JS_CTX_REGEX]
    ELSE [prior EXCEPT !.state = "JSREGEXP", !.js_ctx = JS_CTX_REGEX]
\* variant: any text in front of the match leaves URL_PART_NONE, blank or not
_URLPartTransition_next_Unstripped(prior, m, text) ==
    LET p1 == IF url_part_of(prior) = URL_PART_NONE /\ m.end > 0
              THEN URL_PART_PRE_QUERY ELSE url_part_of(prior)
        p2 == IF p1 # URL_PART_QUERY_OR_FRAG /\ m.g1 # <<>>
              THEN URL_PART_QUERY_OR_FRAG ELSE p1
    IN [prior EXCEPT !.url_part = p2]
_URLPartTransition_next(prior, m, text) ==
    LET p0 == url_part_of(prior)
        \* match.string[:match.end()].strip() is not empty
        p1 == IF p0 = URL_PART_NONE
                 /\ \E k \in 1..m.end : text[k] \notin SpaceChars
              THEN URL_PART_PRE_QUERY ELSE p0
        p2 == IF p1 # URL_PART_QUERY_OR_FRAG /\ m.g1 # <<>>
              THEN URL_PART_QUERY_OR_FRAG ELSE p1
    IN [prior EXCEPT !.url_part = p2]
_CssUriTransition_next(prior, m) ==
    LET state == CASE m.g1 = <<"\"">> -> "CSSDQ_URL"
                   [] m.g1 = <<"'">> -> "CSSSQ_URL"
                   [] OTHER -> "CSS_URL"
    IN [prior EXCEPT !.state = state, !.url_part = URL_PART_NONE]
_DivPreceder_next(prior) ==
    [prior EXCEPT !.state = "JS", !.js_ctx = JS_CTX_DIV_OP]

RECURSIVE compute_next_context(_, _, _, _)
compute_next_context(tr, prior, m, text) ==
    CASE tr.cls = "_ToTransition" -> tr.dest
      [] tr.cls = "_ToTagTransition" -> tr.context
      [] tr.cls \in {"_NormalizeTransition",
                     "_NormalizeJsBlockCommentTransition"} ->
           compute_next_context(tr.transition, prior, m, text)
      [] tr.cls = "_TagDoneTransition" -> _TagDoneTransition_next(prior)
      [] tr.cls = "_TransitionBackToTag" -> _TransitionBackToTag_next(prior)
      [] tr.cls = "_TransitionToAttrName" ->
           _TransitionToAttrName_next(prior, m)
      [] tr.cls = "_TransitionToAttrValue" ->
           after_attr_delimiter(element_type_of(prior), attr_type_of(prior),
                                tr.delim)
      [] tr.cls = "_TransitionToState" ->
           _TransitionToState_next(tr.state, prior)
      [] tr.cls = "_TransitionToJsString" ->
           _TransitionToJsString_next(tr.state, prior)
      [] tr.cls = "_SlashTransition" -> _SlashTransition_next(prior)
      [] tr.cls = "_JsPuncTransition" ->
           next_js_ctx(SubSeq(text, m.start + 1, m.end), prior)
      [] tr.cls = "_TransitionToSelf" -> prior
      [] tr.cls = "_URLPartTransition" ->
           _URLPartTransition_next(prior, m, text)
      [] tr.cls \in {"_EndTagTransition", "_RcdataEndTagTransition"} ->
           WithElement(STATE_TAG, ELEMENT_NONE)
      [] tr.cls = "_CssUriTransition" -> _CssUriTransition_next(prior, m)
      [] tr.cls = "_DivPreceder" -> _DivPreceder_next(prior)

\* the exception compute_next_context raises instead of returning, if any
RECURSIVE compute_raises(_, _)
compute_raises(tr, prior) ==
    CASE tr.cls \in {"_NormalizeTransition",
                     "_NormalizeJsBlockCommentTransition"} ->
           compute_raises(tr.transition, prior)
      [] tr.cls = "_SlashTransition" ->
           IF js_ctx_of(prior) \in {JS_CTX_DIV_OP, JS_CTX_REGEX}
           THEN "none" ELSE "ContextUpdateFailure"
      [] tr.cls = "_TagDoneTransition" ->
           IF element_type_of(prior) = "CLOSE" THEN "KeyError" ELSE "none"
      [] OTHER -> "none"

RECURSIVE is_applicable_to(_, _, _)
is_applicable_to(tr, prior, m) ==
    CASE tr.cls \in {"_NormalizeTransition",
                     "_NormalizeJsBlockCommentTransition"} ->
           is_applicable_to(tr.transition, prior, m)
      [] tr.cls = "_EndTagTransition" -> attr_type_of(prior) = ATTR_NONE
      [] tr.cls = "_RcdataEndTagTransition" ->
           LowerSeq(m.g1) = _ELEMENT_TO_TAG_NAME(element_type_of(prior))
      [] OTHER -> TRUE

_NormalizeTransition_raw_text(tr, m, text) ==
    IF tr.replace_whole THEN tr.repl ELSE Prefix(text, m.start) \o tr.repl
\* variant: the body of a block comment is always elided
_NormalizeJsBlockCommentTransition_raw_text_Elided(m, text) == <<>>
_NormalizeJsBlockCommentTransition_raw_text(m, text) ==
    IF \E k \in 1..m.end : text[k] \in NLS THEN <<"\n">> ELSE <<>>
raw_text_of(tr, m, text) ==
    CASE tr.cls = "_NormalizeTransition" ->
           _NormalizeTransition_raw_text(tr, m, text)
      [] tr.cls = "_NormalizeJsBlockCommentTransition" ->
           _NormalizeJsBlockCommentTransition_raw_text(m, text)
      [] OTHER -> Prefix(text, m.end)

\* ------------------------------------------------------ transition table

\* variant: the table of TEXT without the rule that escapes a stray '<'
T_TEXT_NoStrayRule ==
    << _TransitionToSelf(RE_TEXT_RUN),
       _NormalizeTransition(_ToTransition(RE_CMT_OPEN, StateCtx("HTMLCMT")),
                            <<>>, FALSE),
       _ToTagTransition(RE_OPEN_SCRIPT, WithElement(STATE_TAG, "SCRIPT")),
       _ToTagTransition(RE_OPEN_STYLE, WithElement(STATE_TAG, "STYLE")),
       _ToTagTransition(RE_OPEN_TEXTAREA, WithElement(STATE_TAG, "TEXTAREA")),
       _ToTagTransition(RE_OPEN_TITLE, WithElement(STATE_TAG, "TITLE")),
       _ToTagTransition(RE_OPEN_XMP, WithElement(STATE_TAG, "XMP")),
       _ToTagTransition(RE_LT_SLASH,
                        WithElement(StateCtx("HTML_BEFORE_TAG_NAME"), "CLOSE")),
       _ToTransition(RE_LT, StateCtx("HTML_BEFORE_TAG_NAME")) >>
T_TEXT ==
    << _TransitionToSelf(RE_TEXT_RUN),
       _NormalizeTransition(_ToTransition(RE_CMT_OPEN, StateCtx("HTMLCMT")),
                            <<>>, FALSE),
       _ToTagTransition(RE_OPEN_SCRIPT, WithElement(STATE_TAG, "SCRIPT")),
       _ToTagTransition(RE_OPEN_STYLE, WithElement(STATE_TAG, "STYLE")),
       _ToTagTransition(RE_OPEN_TEXTAREA, WithElement(STATE_TAG, "TEXTAREA")),
       _ToTagTransition(RE_OPEN_TITLE, WithElement(STATE_TAG, "TITLE")),
       _ToTagTransition(RE_OPEN_XMP, WithElement(STATE_TAG, "XMP")),
       _NormalizeTransition(_TransitionToSelf(RE_STRAY_LT), Chars("&lt;"),
                            FALSE),
       _ToTagTransition(RE_LT_SLASH,
                        WithElement(StateCtx("HTML_BEFORE_TAG_NAME"), "CLOSE")),
       _ToTransition(RE_LT, StateCtx("HTML_BEFORE_TAG_NAME")) >>
\* variant: RCDATA is left by the end tag of any element
T_RCDATA_AnyEndTag ==
    << _EndTagTransition(RE_RCDATA_END),
       _NormalizeTransition(_TransitionToSelf(RE_LT), Chars("&lt;"), FALSE),
       _TRANSITION_TO_SELF >>
T_RCDATA ==
    << _RcdataEndTagTransition(RE_RCDATA_END),
       _NormalizeTransition(_TransitionToSelf(RE_LT), Chars("&lt;"), FALSE),
       _TRANSITION_TO_SELF >>
T_HTML_BEFORE_TAG_NAME ==
    << _ToTagTransition(RE_TAG_NAME_START, StateCtx("TAG_NAME")),
       _ToTransition(RE_NOT_TAG_NAME, STATE_TEXT) >>
T_TAG_NAME ==
    << _TransitionToSelf(RE_TAG_NAME_RUN),
       _ToTagTransition(RE_TAG_NAME_END, WithElement(STATE_TAG, ELEMENT_NONE)) >>
T_TAG ==
    << _TransitionToAttrName(RE_ATTR_NAME),
       _TagDoneTransition(RE_TAG_END),
       _TransitionToSelf(RE_ALL_SPACE) >>
T_ATTR_NAME ==
    << _TransitionToSelf(RE_ATTR_NAME_RUN),
       _TransitionToState(RE_START, "AFTER_NAME") >>
T_AFTER_NAME ==
    << _TransitionToState(RE_EQ, "BEFORE_VALUE"),
       _TransitionToSelf(RE_SPACES),
       _TransitionBackToTag(RE_START) >>
T_BEFORE_VALUE ==
    << _TransitionToAttrValue(RE_VALUE_DQ, DELIM_DOUBLE_QUOTE),
       _TransitionToAttrValue(RE_VALUE_SQ, DELIM_SINGLE_QUOTE),
       _TransitionToAttrValue(RE_VALUE_UNQUOTED, DELIM_SPACE_OR_TAG_END),
       _NormalizeTransition(_TransitionBackToTag(RE_VALUE_EMPTY),
                            <<"\"", "\"">>, FALSE),
       _TransitionToSelf(RE_SPACES) >>
\* variant: the comment rules without their normalization
T_HTMLCMT_NotNormalized ==
    << _ToTransition(RE_CMT_CLOSE, STATE_TEXT), _TRANSITION_TO_SELF >>
T_HTMLCMT ==
    << _NormalizeTransition(_ToTransition(RE_CMT_CLOSE, STATE_TEXT), <<>>, TRUE),
       _NormalizeTransition(_TRANSITION_TO_SELF, <<>>, TRUE) >>
T_ATTR == << _TRANSITION_TO_SELF >>
T_CSS ==
    << _NormalizeTransition(_TransitionToState(RE_SLASH_STAR, "CSSBLOCK_CMT"),
                            <<" ">>, FALSE),
       _NormalizeTransition(_TransitionToState(RE_SLASH_SLASH, "CSSLINE_CMT"),
                            <<>>, FALSE),
       _TransitionToState(RE_DQ, "CSSDQ_STR"),
       _TransitionToState(RE_SQ, "CSSSQ_STR"),
       _CssUriTransition(RE_CSS_URI),
       _STYLE_TAG_END,
       _TRANSITION_TO_SELF >>
T_CSSBLOCK_CMT ==
    << _NormalizeTransition(_TransitionToState(RE_STAR_SLASH, "CSS"),
                            <<>>, TRUE),
       _NormalizeTransition(_STYLE_TAG_END, Chars("</style"), TRUE),
       _NormalizeTransition(_TRANSITION_TO_SELF, <<>>, TRUE) >>
T_CSSLINE_CMT ==
    << _NormalizeTransition(_TransitionToState(RE_CSS_NL, "CSS"),
                            <<"\n">>, TRUE),
       _NormalizeTransition(_STYLE_TAG_END, Chars("</style"), TRUE),
       _NormalizeTransition(_TRANSITION_TO_SELF, <<>>, TRUE) >>
T_CSSDQ_STR ==
    << _TransitionToState(RE_DQ, "CSS"),
       _TransitionToSelf(RE_CSS_ESC_DQ),
       _CSSURL_PART_TRANSITION,
       _ToTransition(RE_CSS_NL_ERR, STATE_ERROR),
       _STYLE_TAG_END,
       _TRANSITION_TO_SELF >>
\* variant: CSSSQ_STR without the rule that tracks the URL part
T_CSSSQ_STR_NoUrlPart ==
    << _TransitionToState(RE_SQ, "CSS"),
       _TransitionToSelf(RE_CSS_ESC_SQ),
       _ToTransition(RE_CSS_NL_ERR, STATE_ERROR),
       _STYLE_TAG_END >>
T_CSSSQ_STR ==
    << _TransitionToState(RE_SQ, "CSS"),
       _TransitionToSelf(RE_CSS_ESC_SQ),
       _CSSURL_PART_TRANSITION,
       _ToTransition(RE_CSS_NL_ERR, STATE_ERROR),
       _STYLE_TAG_END >>
T_CSS_URL ==
    << _TransitionToState(RE_CSS_URL_END, "CSS"),
       _CSSURL_PART_TRANSITION,
       _TransitionToState(RE_QUOTE, "ERROR"),
       _STYLE_TAG_END >>
T_CSSSQ_URL ==
    << _TransitionToState(RE_SQ, "CSS"),
       _CSSURL_PART_TRANSITION,
       _TransitionToSelf(RE_CSS_ESC_SQ),
       _ToTransition(RE_CSS_NL_ERR, STATE_ERROR),
       _STYLE_TAG_END >>
T_CSSDQ_URL ==
    << _TransitionToState(RE_DQ, "CSS"),
       _CSSURL_PART_TRANSITION,
       _TransitionToSelf(RE_CSS_ESC_DQ),
       _ToTransition(RE_CSS_NL_ERR, STATE_ERROR),
       _STYLE_TAG_END >>
\* variant: the opener of a block comment is replaced by nothing
T_JS_OpenerElided ==
    << _NormalizeTransition(_TransitionToState(RE_JS_SLASH_STAR, "JSBLOCK_CMT"),
                            <<>>, FALSE),
       _NormalizeTransition(_TransitionToState(RE_JS_SLASH_SLASH, "JSLINE_CMT"),
                            <<>>, FALSE),
       _TransitionToJsString(RE_DQ, "JSDQ_STR"),
       _TransitionToJsString(RE_SQ, "JSSQ_STR"),
       _SlashTransition(RE_SLASH),
       _JsPuncTransition(RE_JS_PUNC),
       _TransitionToSelf(RE_JS_SPACE),
       _SCRIPT_TAG_END >>
T_JS ==
    << _NormalizeTransition(_TransitionToState(RE_JS_SLASH_STAR, "JSBLOCK_CMT"),
                            <<" ">>, FALSE),
       _NormalizeTransition(_TransitionToState(RE_JS_SLASH_SLASH, "JSLINE_CMT"),
                            <<>>, FALSE),
       _TransitionToJsString(RE_DQ, "JSDQ_STR"),
       _TransitionToJsString(RE_SQ, "JSSQ_STR"),
       _SlashTransition(RE_SLASH),
       _JsPuncTransition(RE_JS_PUNC),
       _TransitionToSelf(RE_JS_SPACE),
       _SCRIPT_TAG_END >>
T_JSBLOCK_CMT ==
    << _NormalizeJsBlockCommentTransition(
           _TransitionToState(RE_JS_STAR_SLASH, "JS")),
       _NormalizeTransition(_SCRIPT_TAG_END, Chars("</script"), TRUE),
       _NormalizeJsBlockCommentTransition(_TRANSITION_TO_SELF) >>
T_JSLINE_CMT ==
    << _NormalizeTransition(_TransitionToState(RE_JS_NL, "JS"), <<"\n">>, TRUE),
       _NormalizeTransition(_SCRIPT_TAG_END, Chars("</script"), TRUE),
       _NormalizeTransition(_TRANSITION_TO_SELF, <<>>, TRUE) >>
T_JSDQ_STR ==
    << _DivPreceder(RE_DQ), _SCRIPT_TAG_END, _TransitionToSelf(RE_JSDQ_BODY) >>
T_JSSQ_STR ==
    << _DivPreceder(RE_SQ), _SCRIPT_TAG_END, _TransitionToSelf(RE_JSSQ_BODY) >>
T_JSREGEXP ==
    << _DivPreceder(RE_SLASH), _SCRIPT_TAG_END,
       _TransitionToSelf(RE_JSREGEXP_BODY) >>
T_URL == << _URL_PART_TRANSITION >>

\* _TRANSITIONS[state]; STATE_ERROR has no rule list
_TRANSITIONS(state) ==
    CASE state = "TEXT" -> T_TEXT
      [] state = "RCDATA" -> T_RCDATA
      [] state = "HTML_BEFORE_TAG_NAME" -> T_HTML_BEFORE_TAG_NAME
      [] state = "TAG_NAME" -> T_TAG_NAME
      [] state = "TAG" -> T_TAG
      [] state = "ATTR_NAME" -> T_ATTR_NAME
      [] state = "AFTER_NAME" -> T_AFTER_NAME
      [] state = "BEFORE_VALUE" -> T_BEFORE_VALUE
      [] state = "HTMLCMT" -> T_HTMLCMT
      [] state = "ATTR" -> T_ATTR
      [] state = "CSS" -> T_CSS
      [] state = "CSSBLOCK_CMT" -> T_CSSBLOCK_CMT
      [] state = "CSSLINE_CMT" -> T_CSSLINE_CMT
      [] state = "CSSDQ_STR" -> T_CSSDQ_STR
      [] state = "CSSSQ_STR" -> T_CSSSQ_STR
      [] state = "CSS_URL" -> T_CSS_URL
      [] state = "CSSSQ_URL" -> T_CSSSQ_URL
      [] state = "CSSDQ_URL" -> T_CSSDQ_URL
      [] state = "JS" -> T_JS
      [] state = "JSBLOCK_CMT" -> T_JSBLOCK_CMT
      [] state = "JSLINE_CMT" -> T_JSLINE_CMT
      [] state = "JSDQ_STR" -> T_JSDQ_STR
      [] state = "JSSQ_STR" -> T_JSSQ_STR
      [] state = "JSREGEXP" -> T_JSREGEXP
      [] state = "URL" -> T_URL

\* ---------------------------------------------------------------- scanner
\* _process_next_token(text, context): what it returns,
\* (num_consumed, next_context, normalized_text), or the exception it raises.

\* the rule the loop settles on: among the rules that match and are
\* applicable, the earliest start, the first in the table on a tie. The
\* result is <<k, match>>, k = 0 if no rule matches.
\* variant: `start <= earliest_start`, a tie goes to the later rule
EarliestOf_LastOnTie(cands) ==
    IF cands = {} THEN <<0, NoMatch>>
    ELSE CHOOSE p \in cands :
           \A q \in cands : \/ p[2].start < q[2].start
                            \/ p[2].start = q[2].start /\ p[1] >= q[1]

EarliestOf(cands) ==
    IF cands = {} THEN <<0, NoMatch>>
    ELSE CHOOSE p \in cands :
           \A q \in cands : \/ p[2].start < q[2].start
                            \/ p[2].start = q[2].start /\ p[1] <= q[1]

earliest_transition(text, context) ==
    LET rules == _TRANSITIONS(state_of(context))
    IN EarliestOf({p \in {<<k, PatternSearch(rules[k].pattern, text)>> :
                            k \in 1..Len(rules)} :
                     /\ p[2].start >= 0
                     /\ is_applicable_to(rules[p[1]], context, p[2])})

\* the body of _process_next_token once the rule and its match are known
TokenResult(text, context, k, m) ==
    LET tr == _TRANSITIONS(state_of(context))[k]
        exc == IF k = 0 THEN "none" ELSE compute_raises(tr, context)
    IN IF exc # "none"
       THEN [num_consumed |-> 0, next_context |-> context,
             normalized_text |-> <<>>, exc |-> exc]
       ELSE IF k = 0
       THEN [num_consumed |-> Len(text), next_context |-> STATE_ERROR,
             normalized_text |-> text, exc |-> "none"]
       ELSE IF m.end = 0
               /\ state_of(compute_next_context(tr, context, m, text))
                    = state_of(context)
       THEN [num_consumed |-> 0, next_context |-> context,
             normalized_text |-> <<>>, exc |-> "Exception"]
       ELSE [num_consumed |-> m.end,
             next_context |-> compute_next_context(tr, context, m, text),
             normalized_text |-> raw_text_of(tr, m, text), exc |-> "none"]

_process_next_token(text, context) ==
    IF is_error_context(context)
    THEN [num_consumed |-> Len(text), next_context |-> context,
          normalized_text |-> text, exc |-> "none"]
    ELSE CHOOSE r \in {TokenResult(text, context, p[1], p[2]) :
                         p \in {earliest_transition(text, context)}} : TRUE

\* ------------------------------------------------------------ the driver
\* process_raw_text(raw_text, context), one action per pass through its
\* loops, called repeatedly by the template engine with the chunks of a
\* template: each call starts in the context the call before it returned.

\* the number of consecutive calls explored
MaxCalls == 3

\* None, as a text and as a context
NoneText == <<"None">>
NoneCtx == StateCtx("None")

\* the chunks of template text the engine passes in
Chunks ==
    { <<>>, Chars("<a href=foo?x=1>"), Chars("<a href=foo?x>"),
      Chars("<!DOCTYPE a>"), Chars("</1"), Chars("<!-- comment -->"),
      <<"/", "*", "\n", "*", "/">>, Chars("<b>Hello"),
      Chars("<input value=>"), Chars("<a title='x'>"),
      Chars("<a href="), Chars("<a onclick=\""), Chars("<a style='"),
      <<"<", "a", " ", "o", "n", "c", "l", "i", "c", "k", "=", "\"", "\\",
        "\"", ">">>, Chars("<a style='url("),
      Chars("<script>"), Chars("<style>"), Chars("<textarea>"),
      Chars("<a"), Chars(" b"), Chars("="), Chars(">"), Chars(" "),
      Chars("\""), Chars("'"), Chars("<"), Chars("</"), Chars("<1"),
      Chars("a<b"), Chars("<!--"), Chars("-->"), Chars("x-->y"),
      Chars("/*"), Chars("*/"), Chars("/"), Chars("x"),
      <<"\n">>, <<"\\">>, <<"\\", "\"", ">">>, Chars("x\"y>"), Chars("x y"),
      Chars("x=y"), Chars("x'y "), Chars("a<b>"), <<"x", NUL>>,
      <<"x", BACKTICK, ">">>, Chars("?a>"), Chars("url('"),
      Chars("</script"), Chars("</textarea>"), Chars("&quot;"),
      Chars("<a onclick=\"alert(&quot;hi&quot;)\">"),
      Chars("<script onclick=\""), Chars("<a href>"),
      Chars("<title>"), Chars("<xmp>"), Chars("<listing>"),
      Chars("1-/**/-1"), Chars("x</**//script"), Chars("a/*b*/c"),
      Chars("a/***/b"), Chars("/*/*/x"),
      <<"a", "/", "*", " ", "\n", "b", "*", "/", "c", "/", "*", "*", "/">> }

VARIABLES
    in_raw,          \* the raw_text argument of the call in progress
    in_ctx,          \* its context argument
    raw_text,        \* the local raw_text: what is left to consume
    context,         \* the local context; between calls, the engine's context
    normalized,      \* the contents of the StringIO
    prior_context,
    prior_raw_text,
    delim_type,
    attr_end,
    attr_value_tail,
    pc,              \* idle | loop | attr | returned | raised
    result,          \* the tuple returned, or the exception raised
    ncalls,
    context0,        \* the arguments of context_union
    context1,
    union,           \* and what it returned
    concat_a,        \* two texts whose concatenation is processed,
    concat_b,
    result_a,        \* and what process_raw_text returned for each
    result_b

\* the variables of process_raw_text, and those of context_union
call_vars == <<in_raw, in_ctx, raw_text, context, normalized, prior_context,
               prior_raw_text, delim_type, attr_end, attr_value_tail, result,
               ncalls>>
union_vars == <<context0, context1, union>>
concat_vars == <<concat_a, concat_b, result_a, result_b>>
vars == <<call_vars, union_vars, concat_vars, pc>>

NoResult == [ctx |-> NoneCtx, normalized |-> NoneText,
             err_ctx |-> NoneCtx, err_suffix |-> NoneText, exc |-> "none"]
Returned(c, n, ec, es) ==
    [ctx |-> c, normalized |-> n, err_ctx |-> ec, err_suffix |-> es,
     exc |-> "none"]
Raised(e) == [NoResult EXCEPT !.exc = e]

\* _end_of_attr_value(raw_text, delim)
_end_of_attr_value(raw, delim) ==
    IF delim = DELIM_NONE THEN -1
    ELSE IF delim = DELIM_SPACE_OR_TAG_END
    THEN RunEndNot(raw, 0, SpaceChars \cup {">"})
    ELSE RunEndNot(raw, 0, {DELIM_TEXT(delim)[1]})

\* variant: the check for suspicious characters forgets the equals sign
BadUnquotedChars_NoEquals == {NUL, "\"", "'", "<", BACKTICK}
\* variant: re.match instead of re.search, only the first character is tested
HasBadUnquotedChar_AtStart(text) ==
    text # <<>> /\ text[1] \in {NUL, "\"", "'", "<", "=", BACKTICK}

\* re.search(r'[\x00"\'<=`]', text) finds something
BadUnquotedChars == {NUL, "\"", "'", "<", "=", BACKTICK}
HasBadUnquotedChar(text) == \E k \in 1..Len(text) : text[k] \in BadUnquotedChars

escaper(delim, s) ==
    IF delim = DELIM_SINGLE_QUOTE THEN escape_html_sq_only(s)
    ELSE escape_html_dq_only(s)

\* variant: every attribute value is closed with a double quote
ClosingQuote_AlwaysDouble(delim) == <<"\"">>

\* the quote appended when an attribute value ends
ClosingQuote(delim) == IF delim = DELIM_SINGLE_QUOTE THEN <<"'">> ELSE <<"\"">>

\* variant: on an error the text written so far is returned, not None
LoopEnd_KeepsText(ctx, pctx, praw) ==
    IF is_error_context(ctx)
    THEN /\ pc' = "returned"
         /\ result' = Returned(ctx, normalized', pctx, praw)
    ELSE /\ pc' = "loop"
         /\ result' = result

\* the check that ends every pass of the outer loop
LoopEnd(ctx, pctx, praw) ==
    IF is_error_context(ctx)
    THEN /\ pc' = "returned"
         /\ result' = Returned(ctx, NoneText, pctx, praw)
    ELSE /\ pc' = "loop"
         /\ result' = result

Init ==
    /\ in_raw = <<>>
    /\ in_ctx = STATE_TEXT
    /\ raw_text = <<>>
    /\ context = STATE_TEXT
    /\ normalized = <<>>
    /\ prior_context = STATE_TEXT
    /\ prior_raw_text = <<>>
    /\ delim_type = DELIM_NONE
    /\ attr_end = -1
    /\ attr_value_tail = <<>>
    /\ pc = "idle"
    /\ result = NoResult
    /\ ncalls = 0
    /\ context0 = STATE_TEXT
    /\ context1 = STATE_TEXT
    /\ union = NoneCtx
    /\ concat_a = <<>>
    /\ concat_b = <<>>
    /\ result_a = NoResult
    /\ result_b = NoResult

\* the engine calls process_raw_text(chunk, context)
Call(chunk) ==
    /\ pc \in {"idle", "returned"}
    /\ ncalls < MaxCalls
    /\ ncalls' = ncalls + 1
    /\ in_raw' = chunk
    /\ in_ctx' = context
    /\ raw_text' = chunk
    /\ normalized' = <<>>
    /\ prior_context' = context
    /\ prior_raw_text' = chunk
    /\ delim_type' = DELIM_NONE
    /\ attr_end' = -1
    /\ attr_value_tail' = <<>>
    /\ pc' = "loop"
    /\ result' = NoResult
    /\ UNCHANGED <<context, union_vars, concat_vars>>

\* variant: the clean exit also reports the last iteration's prior context
Return_WithPrior ==
    /\ pc = "loop"
    /\ raw_text = <<>>
    /\ pc' = "returned"
    /\ result' = Returned(context, normalized, prior_context, prior_raw_text)
    /\ UNCHANGED <<in_raw, in_ctx, raw_text, context, normalized,
                   prior_context, prior_raw_text, delim_type, attr_end,
                   attr_value_tail, ncalls, union_vars, concat_vars>>

\* while raw_text: ... falls through: return (context, normalized, None, None)
Return ==
    /\ pc = "loop"
    /\ raw_text = <<>>
    /\ pc' = "returned"
    /\ result' = Returned(context, normalized, NoneCtx, NoneText)
    /\ UNCHANGED <<in_raw, in_ctx, raw_text, context, normalized,
                   prior_context, prior_raw_text, delim_type, attr_end,
                   attr_value_tail, ncalls, union_vars, concat_vars>>

\* one pass of the loop outside an attribute value
TokenStep ==
    /\ pc = "loop"
    /\ raw_text # <<>>
    /\ _end_of_attr_value(raw_text, delim_type_of(context)) = -1
    /\ \E r \in {_process_next_token(raw_text, context)} :
          /\ prior_context' = context
          /\ prior_raw_text' = raw_text
          /\ delim_type' = delim_type_of(context)
          /\ IF r.exc # "none"
             THEN /\ pc' = "raised"
                  /\ result' = Raised(r.exc)
                  /\ UNCHANGED <<raw_text, context, normalized>>
             ELSE /\ raw_text' = Suffix(raw_text, r.num_consumed)
                  /\ context' = r.next_context
                  /\ normalized' =
                       normalized \o r.normalized_text
                       \o (IF delim_type_of(r.next_context)
                              = DELIM_SPACE_OR_TAG_END
                           THEN <<"\"">> ELSE <<>>)
                  /\ LoopEnd(r.next_context, context, raw_text)
    /\ UNCHANGED <<in_raw, in_ctx, attr_end, attr_value_tail, ncalls,
                   union_vars, concat_vars>>

\* a pass inside an attribute value, up to the decoding of the value
AttrBegin ==
    /\ pc = "loop"
    /\ raw_text # <<>>
    /\ \E attr_value_end \in
            {_end_of_attr_value(raw_text, delim_type_of(context))} :
          /\ attr_value_end # -1
          /\ prior_context' = context
          /\ prior_raw_text' = raw_text
          /\ delim_type' = delim_type_of(context)
          /\ IF /\ delim_type_of(context) = DELIM_SPACE_OR_TAG_END
                /\ HasBadUnquotedChar(Prefix(raw_text, attr_value_end))
             THEN /\ pc' = "raised"
                  /\ result' = Raised("ContextUpdateFailure")
                  /\ UNCHANGED <<attr_end, attr_value_tail>>
             ELSE /\ attr_end' =
                       IF attr_value_end < Len(raw_text)
                       THEN attr_value_end
                            + Len(DELIM_TEXT(delim_type_of(context)))
                       ELSE -1
                  /\ attr_value_tail' =
                       unescape_html(Prefix(raw_text, attr_value_end))
                  /\ pc' = "attr"
                  /\ result' = result
    /\ UNCHANGED <<in_raw, in_ctx, raw_text, context, normalized, ncalls,
                   union_vars, concat_vars>>

\* while attr_value_tail: one token of the decoded value
AttrToken ==
    /\ pc = "attr"
    /\ attr_value_tail # <<>>
    /\ \E r \in {_process_next_token(attr_value_tail, context)} :
          IF r.exc # "none"
          THEN /\ pc' = "raised"
               /\ result' = Raised(r.exc)
               /\ UNCHANGED <<attr_value_tail, context, normalized>>
          ELSE /\ attr_value_tail' = Suffix(attr_value_tail, r.num_consumed)
               /\ context' = r.next_context
               /\ normalized' =
                    normalized \o escaper(delim_type, r.normalized_text)
               /\ UNCHANGED <<pc, result>>
    /\ UNCHANGED <<in_raw, in_ctx, raw_text, prior_context, prior_raw_text,
                   delim_type, attr_end, ncalls, union_vars, concat_vars>>

\* the decoded value is consumed: leave the attribute, or the chunk ends in it
AttrEnd ==
    /\ pc = "attr"
    /\ attr_value_tail = <<>>
    /\ IF attr_end # -1
       THEN /\ raw_text' = Suffix(raw_text, attr_end)
            /\ context' = WithElement(STATE_TAG, element_type_of(context))
            /\ normalized' = normalized \o ClosingQuote(delim_type)
            /\ LoopEnd(WithElement(STATE_TAG, element_type_of(context)),
                       prior_context, prior_raw_text)
       ELSE /\ raw_text' = <<>>
            /\ UNCHANGED <<context, normalized>>
            /\ LoopEnd(context, prior_context, prior_raw_text)
    /\ UNCHANGED <<in_raw, in_ctx, prior_context, prior_raw_text, delim_type,
                   attr_end, attr_value_tail, ncalls, union_vars, concat_vars>>

Next ==
    \/ \E chunk \in Chunks : Call(chunk)
    \/ TokenStep
    \/ AttrBegin
    \/ AttrToken
    \/ AttrEnd
    \/ Return

Spec == Init /\ [][Next]_vars

\* ------------------------------------------------------- context_union
\* context_union(context0, context1), called by the template engine where
\* two execution paths join.

\* variant: the rules that consume nothing in front of a tag end
EpsilonRules_BeforeTagEnd(ctx) ==
    IF is_error_context(ctx) THEN {}
    ELSE {k \in 1..Len(_TRANSITIONS(state_of(ctx))) :
            LET tr == _TRANSITIONS(state_of(ctx))[k]
            IN /\ PatternSearch(tr.pattern, <<">">>).start = 0
               /\ PatternSearch(tr.pattern, <<">">>).end = 0
               /\ is_applicable_to(tr, ctx, PatternSearch(tr.pattern, <<">">>))
               /\ compute_raises(tr, ctx) = "none"}

\* force_epsilon_transition(context): the first rule of the state's table
\* whose pattern matches the empty text and which is applicable gives the
\* context; without such a rule the context is returned unchanged
EpsilonRules(ctx) ==
    IF is_error_context(ctx) THEN {}
    ELSE {k \in 1..Len(_TRANSITIONS(state_of(ctx))) :
            LET tr == _TRANSITIONS(state_of(ctx))[k]
            IN /\ PatternSearch(tr.pattern, <<>>).start >= 0
               /\ is_applicable_to(tr, ctx, PatternSearch(tr.pattern, <<>>))
               /\ compute_raises(tr, ctx) = "none"}

force_epsilon_transition(ctx) ==
    IF EpsilonRules(ctx) = {} THEN ctx
    ELSE LET tr == _TRANSITIONS(state_of(ctx))[SetMin(EpsilonRules(ctx))]
         IN compute_next_context(tr, ctx,
                                 PatternSearch(tr.pattern, <<>>), <<>>)

\* variant: contexts that differ by one field are joined to the first one
context_union_KeepsFirst(c0, c1) ==
    IF c0 = c1 THEN c0
    ELSE IF c0 = [c1 EXCEPT !.js_ctx = js_ctx_of(c0)] THEN c0
    ELSE IF c0 = [c1 EXCEPT !.url_part = url_part_of(c0)] THEN c0
    ELSE STATE_ERROR

\* the recursive call, made once both arguments are evaluated
RECURSIVE context_union(_, _)
\* variant: only a nudge of the first argument leads to the recursive call
NudgedUnion_FirstOnly(c0, c1, ncontext0, ncontext1) ==
    IF c0 # ncontext0
    THEN context_union(ncontext0, ncontext1)
    ELSE STATE_ERROR

\* variant: contexts that no nudge reconciles are joined to the first one
NudgedUnion_NoError(c0, c1, ncontext0, ncontext1) ==
    IF c0 # ncontext0 \/ c1 # ncontext1
    THEN context_union(ncontext0, ncontext1)
    ELSE c0

NudgedUnion(c0, c1, ncontext0, ncontext1) ==
    IF c0 # ncontext0 \/ c1 # ncontext1
    THEN context_union(ncontext0, ncontext1)
    ELSE STATE_ERROR

context_union(c0, c1) ==
    IF c0 = c1 THEN c0
    ELSE IF c0 = [c1 EXCEPT !.js_ctx = js_ctx_of(c0)]
    THEN [c0 EXCEPT !.js_ctx = JS_CTX_UNKNOWN]
    ELSE IF c0 = [c1 EXCEPT !.url_part = url_part_of(c0)]
    THEN [c0 EXCEPT !.url_part = URL_PART_UNKNOWN]
    ELSE CHOOSE r \in {NudgedUnion(c0, c1, p[1], p[2]) :
                         p \in {<<force_epsilon_transition(c0),
                                  force_epsilon_transition(c1)>>}} : TRUE

\* the contexts the engine joins
UrlValue(delim, part) ==
    [state |-> "URL", element |-> ELEMENT_NONE, attr |-> ATTR_URL,
     delim |-> delim, url_part |-> part, js_ctx |-> JS_CTX_REGEX]
JsIn(element, attr, delim, js_ctx) ==
    [state |-> "JS", element |-> element, attr |-> attr, delim |-> delim,
     url_part |-> URL_PART_NONE, js_ctx |-> js_ctx]
UnionContexts ==
    {STATE_TEXT, STATE_TAG, STATE_ERROR, WithElement(STATE_TAG, "SCRIPT"),
     StateCtx("ATTR_NAME"), StateCtx("AFTER_NAME"), StateCtx("BEFORE_VALUE"),
     StateCtx("TAG_NAME"), StateCtx("JSDQ_STR")}
    \cup {JsIn(ELEMENT_NONE, ATTR_NONE, DELIM_NONE, j) : j \in JsCtxs}
    \cup {JsIn("SCRIPT", ATTR_NONE, DELIM_NONE, j) : j \in JsCtxs}
    \cup {UrlValue(DELIM_DOUBLE_QUOTE, u) : u \in UrlParts}
    \cup {UrlValue(DELIM_SPACE_OR_TAG_END, u) : u \in UrlParts}
    \cup {[STATE_ERROR EXCEPT !.js_ctx = JS_CTX_DIV_OP],
          [STATE_ERROR EXCEPT !.url_part = URL_PART_PRE_QUERY],
          [STATE_ERROR EXCEPT !.element = "STYLE"]}

InitUnion ==
    /\ in_raw = <<>>
    /\ in_ctx = STATE_TEXT
    /\ raw_text = <<>>
    /\ context = STATE_TEXT
    /\ normalized = <<>>
    /\ prior_context = STATE_TEXT
    /\ prior_raw_text = <<>>
    /\ delim_type = DELIM_NONE
    /\ attr_end = -1
    /\ attr_value_tail = <<>>
    /\ pc = "idle"
    /\ result = NoResult
    /\ ncalls = 0
    /\ context0 \in UnionContexts
    /\ context1 \in UnionContexts
    /\ union = NoneCtx
    /\ concat_a = <<>>
    /\ concat_b = <<>>
    /\ result_a = NoResult
    /\ result_b = NoResult

\* the engine calls context_union(context0, context1)
Union ==
    /\ pc = "idle"
    /\ union' = context_union(context0, context1)
    /\ pc' = "joined"
    /\ UNCHANGED <<call_vars, context0, context1, concat_vars>>

SpecUnion == InitUnion /\ [][Union]_vars

\* ------------------------------------------- process_raw_text as a whole
\* process_raw_text(raw_text, context) as one function: the loops of the
\* driver run to the end.

\* the inner loop over the decoded value; out is what it has written
RECURSIVE AttrValueLoop(_, _, _, _)
AttrValueStep(r, tail, ctx, delim, out) ==
    IF r.exc # "none"
    THEN [ctx |-> ctx, out |-> out, exc |-> r.exc]
    ELSE AttrValueLoop(Suffix(tail, r.num_consumed), r.next_context, delim,
                       out \o escaper(delim, r.normalized_text))
AttrValueLoop(tail, ctx, delim, out) ==
    IF tail = <<>> THEN [ctx |-> ctx, out |-> out, exc |-> "none"]
    ELSE CHOOSE x \in {AttrValueStep(r, tail, ctx, delim, out) :
                         r \in {_process_next_token(tail, ctx)}} : TRUE

\* one pass of the outer loop: the text left, the context, the text written
\* and the exception raised, if any
TokenPass(r, raw, ctx) ==
    IF r.exc # "none"
    THEN [raw |-> raw, ctx |-> ctx, out |-> <<>>, exc |-> r.exc]
    ELSE [raw |-> Suffix(raw, r.num_consumed), ctx |-> r.next_context,
          out |-> r.normalized_text
                  \o (IF delim_type_of(r.next_context) = DELIM_SPACE_OR_TAG_END
                      THEN <<"\"">> ELSE <<>>),
          exc |-> "none"]
AttrPassEnd(v, raw, delim, attr_value_end) ==
    IF v.exc # "none"
    THEN [raw |-> raw, ctx |-> v.ctx, out |-> v.out, exc |-> v.exc]
    ELSE IF attr_value_end < Len(raw)
    THEN [raw |-> Suffix(raw, attr_value_end + Len(DELIM_TEXT(delim))),
          ctx |-> WithElement(STATE_TAG, element_type_of(v.ctx)),
          out |-> v.out \o ClosingQuote(delim), exc |-> "none"]
    ELSE [raw |-> <<>>, ctx |-> v.ctx, out |-> v.out, exc |-> "none"]
AttrPass(raw, ctx, delim, attr_value_end) ==
    IF /\ delim = DELIM_SPACE_OR_TAG_END
       /\ HasBadUnquotedChar(Prefix(raw, attr_value_end))
    THEN [raw |-> raw, ctx |-> ctx, out |-> <<>>,
          exc |-> "ContextUpdateFailure"]
    ELSE CHOOSE x \in
           {AttrPassEnd(v, raw, delim, attr_value_end) :
              v \in {AttrValueLoop(unescape_html(Prefix(raw, attr_value_end)),
                                   ctx, delim, <<>>)}} : TRUE
LoopPass(raw, ctx) ==
    CHOOSE x \in
      {IF e = -1
       THEN CHOOSE y \in {TokenPass(r, raw, ctx) :
                            r \in {_process_next_token(raw, ctx)}} : TRUE
       ELSE AttrPass(raw, ctx, delim_type_of(ctx), e) :
         e \in {_end_of_attr_value(raw, delim_type_of(ctx))}} : TRUE

RECURSIVE OuterLoop(_, _, _)
AfterPass(p, raw, ctx, norm) ==
    IF p.exc # "none" THEN Raised(p.exc)
    ELSE IF is_error_context(p.ctx) THEN Returned(p.ctx, NoneText, ctx, raw)
    ELSE OuterLoop(p.raw, p.ctx, norm \o p.out)
OuterLoop(raw, ctx, norm) ==
    IF raw = <<>> THEN Returned(ctx, norm, NoneCtx, NoneText)
    ELSE CHOOSE x \in {AfterPass(p, raw, ctx, norm) :
                         p \in {LoopPass(raw, ctx)}} : TRUE

\* variant: the buffer of normalized text is not empty at the start
process_raw_text_DirtyBuffer(raw, ctx) == OuterLoop(raw, ctx, <<" ">>)

process_raw_text(raw, ctx) == OuterLoop(raw, ctx, <<>>)

\* the lengths of the text left at the head of each pass of the outer loop
RECURSIVE LoopHeads(_, _)
LoopHeadsAfter(p, raw) ==
    IF p.exc # "none" \/ is_error_context(p.ctx) THEN {Len(raw)}
    ELSE {Len(raw)} \cup LoopHeads(p.raw, p.ctx)
LoopHeads(raw, ctx) ==
    IF raw = <<>> THEN {0}
    ELSE CHOOSE x \in {LoopHeadsAfter(p, raw) :
                         p \in {LoopPass(raw, ctx)}} : TRUE

\* the driver's actions and the function agree on every call
DriverIsFunction ==
    pc \in {"returned", "raised"} =>
        result = process_raw_text(in_raw, in_ctx)

\* ------------------------------------------------- _process_next_token
\* _process_next_token(text, context) called on its own, with every short
\* text over the characters the tables distinguish and with contexts of
\* every state, those a join produces included.

\* the longest text scanned
MaxScanLen == 2

ScanAlphabet == {"<", "/", ">", "a", " ", "\"", "=", "*", "\n"}
RECURSIVE TextsOfLen(_)
TextsOfLen(n) ==
    IF n = 0 THEN {<<>>}
    ELSE {Append(t, c) : t \in TextsOfLen(n - 1), c \in ScanAlphabet}
ScanTexts == UNION {TextsOfLen(n) : n \in 1..MaxScanLen}

ScanContexts ==
    {StateCtx(s) : s \in States}
    \cup {JsIn(e, ATTR_NONE, DELIM_NONE, j) :
            e \in {ELEMENT_NONE, "SCRIPT"}, j \in JsCtxs}
    \cup {JsIn(ELEMENT_NONE, ATTR_SCRIPT, DELIM_DOUBLE_QUOTE, j) : j \in JsCtxs}
    \cup {WithElement(StateCtx("RCDATA"), "TEXTAREA"),
          WithElement(StateCtx("TAG_NAME"), "CLOSE"),
          WithElement(STATE_TAG, "SCRIPT"),
          UrlValue(DELIM_DOUBLE_QUOTE, URL_PART_NONE)}

\* longer texts, each scanned in the contexts its rules belong to:
\* end tags of script and style, and near misses, in the states of a
\* script or style body and of a script or style attribute value
JsFamilyStates ==
    {"JS", "JSBLOCK_CMT", "JSLINE_CMT", "JSDQ_STR", "JSSQ_STR", "JSREGEXP"}
CssFamilyStates ==
    {"CSS", "CSSBLOCK_CMT", "CSSLINE_CMT", "CSSDQ_STR", "CSSSQ_STR",
     "CSS_URL", "CSSDQ_URL", "CSSSQ_URL"}
EndTagTexts ==
    {Chars("</script"), Chars("</SCRIPT>"), Chars("</Script x"),
     Chars("</scripts"), Chars("</script'"), Chars("</style"),
     Chars("</STYLE>"), Chars("</styles"), Chars("</style>x")}
BodyContexts ==
    {[JsIn(e, ATTR_NONE, DELIM_NONE, j) EXCEPT !.state = s] :
        e \in {"SCRIPT"}, j \in {JS_CTX_REGEX, JS_CTX_DIV_OP},
        s \in JsFamilyStates}
    \cup {[JsIn(ELEMENT_NONE, a, DELIM_DOUBLE_QUOTE, j) EXCEPT !.state = s] :
            a \in {ATTR_SCRIPT}, j \in {JS_CTX_REGEX, JS_CTX_DIV_OP},
            s \in JsFamilyStates}
    \cup {[JsIn("STYLE", ATTR_NONE, DELIM_NONE, JS_CTX_REGEX)
             EXCEPT !.state = s] : s \in CssFamilyStates}
    \cup {[JsIn(ELEMENT_NONE, ATTR_STYLE, DELIM_DOUBLE_QUOTE, JS_CTX_REGEX)
             EXCEPT !.state = s] : s \in CssFamilyStates}

\* every pair (text, context) scanned
\* texts with end tags of RCDATA elements and of others, and stray '<',
\* in the body of each RCDATA element
RcdataTexts ==
    {Chars("</textarea>"), Chars("</TextArea>"), Chars("</b></textarea>"),
     Chars("a<b</textarea>"), Chars("</title>"), Chars("</Title "),
     Chars("</xmp"), Chars("</XMP>"), Chars("</listing>"),
     Chars("</textareas>"), Chars("</text-area>"), Chars("</xmp-"),
     Chars("x</xmp>"), Chars("a < b"), Chars("</"), Chars("</>"),
     Chars("plain")}
RcdataContexts ==
    {WithElement(StateCtx("RCDATA"), e) :
        e \in {"TEXTAREA", "TITLE", "LISTING", "XMP"}}

\* the texts of a CSS string: quotes, backslashes, a line break, a '?' and
\* a letter in every order, and some longer ones, scanned in both states
\* of a quoted CSS string
MaxStrLen == 3
CssStrAlphabet == {"'", "\"", "\\", "a", "\n", "?"}
RECURSIVE CssStrTextsOfLen(_)
CssStrTextsOfLen(n) ==
    IF n = 0 THEN {<<>>}
    ELSE {Append(t, c) : t \in CssStrTextsOfLen(n - 1), c \in CssStrAlphabet}
CssStrTexts ==
    UNION {CssStrTextsOfLen(n) : n \in 1..MaxStrLen}
    \cup {Chars("a</style>"), Chars("</style>'\""), Chars("ab\\3f'"),
          <<"a", "\\", "\\", "\\", "'", "\"">>,
          <<"a", "\\", "\\", "\\", "\"", "'">>,
          <<"\\", "\\", "\\", "\\", "'", "\"">>}
CssStrContexts ==
    {[JsIn("STYLE", ATTR_NONE, DELIM_NONE, JS_CTX_REGEX) EXCEPT !.state = s] :
        s \in {"CSSDQ_STR", "CSSSQ_STR"}}

\* every pair (text, context) scanned
ScanCases ==
    (ScanTexts \X ScanContexts)
    \cup (EndTagTexts \X BodyContexts)
    \cup (RcdataTexts \X RcdataContexts)
    \cup (CssStrTexts \X CssStrContexts)

InitScan ==
    /\ \E c \in ScanCases : in_raw = c[1] /\ in_ctx = c[2]
    /\ raw_text = in_raw
    /\ context = in_ctx
    /\ normalized = <<>>
    /\ prior_context = STATE_TEXT
    /\ prior_raw_text = <<>>
    /\ delim_type = DELIM_NONE
    /\ attr_end = -1
    /\ attr_value_tail = <<>>
    /\ pc = "idle"
    /\ result = NoResult
    /\ ncalls = 0
    /\ context0 = STATE_TEXT
    /\ context1 = STATE_TEXT
    /\ union = NoneCtx
    /\ concat_a = <<>>
    /\ concat_b = <<>>
    /\ result_a = NoResult
    /\ result_b = NoResult

\* the call _process_next_token(in_raw, in_ctx): what is left of the text,
\* the next context and the replacement text, or the exception raised
Scan ==
    /\ pc = "idle"
    /\ \E r \in {_process_next_token(in_raw, in_ctx)} :
          /\ pc' = IF r.exc = "none" THEN "scanned" ELSE "raised"
          /\ result' = IF r.exc = "none" THEN NoResult ELSE Raised(r.exc)
          /\ raw_text' = Suffix(in_raw, r.num_consumed)
          /\ context' = r.next_context
          /\ normalized' = r.normalized_text
    /\ UNCHANGED <<in_raw, in_ctx, prior_context, prior_raw_text, delim_type,
                   attr_end, attr_value_tail, ncalls, union_vars, concat_vars>>

SpecScan == InitScan /\ [][Scan]_vars

\* ------------------------------------------------------- concatenation
\* process_raw_text on a text in one call, and on the same text passed in
\* two calls, cut at any offset.

ConcatTexts ==
    { Chars("<a href=\"x?y\">z"), Chars("<a href=x?y>z"),
      Chars("<a onclick=\"alert(&quot;hi&quot;)\">"),
      Chars("<a onclick='a/b'>"), Chars("<b>Hi<!-- c -->x"),
      Chars("<script>a/2</script>"), Chars("<script>/*c*/</script>"),
      Chars("<style>p{}</style>"), Chars("<textarea>a</textarea>"),
      Chars("<input value=>"), Chars("<a title=x y>"), Chars("a<b <i-x>"),
      Chars("1</2"), Chars("<a style='url(x)'>"), Chars("<a b = c>"),
      Chars("a< b<!x"), Chars("<a-b c>"), Chars("<a- >"), Chars("</textareax"),
      Chars("x</script>"), Chars("\"a</b\"/2/"), Chars("<a href=x y=z>"),
      Chars("<title>a<b</title>"), Chars("<style>a{b:url(\"c\")}") }
ConcatContexts ==
    { STATE_TEXT, JsIn("SCRIPT", ATTR_NONE, DELIM_NONE, JS_CTX_REGEX),
      WithElement(StateCtx("RCDATA"), "TEXTAREA") }

InitConcat ==
    /\ in_raw \in ConcatTexts
    /\ in_ctx \in ConcatContexts
    /\ raw_text = in_raw
    /\ context = in_ctx
    /\ normalized = <<>>
    /\ prior_context = STATE_TEXT
    /\ prior_raw_text = <<>>
    /\ delim_type = DELIM_NONE
    /\ attr_end = -1
    /\ attr_value_tail = <<>>
    /\ pc = "idle"
    /\ result = NoResult
    /\ ncalls = 0
    /\ context0 = STATE_TEXT
    /\ context1 = STATE_TEXT
    /\ union = NoneCtx
    /\ \E i \in 0..Len(in_raw) :
          /\ concat_a = Prefix(in_raw, i)
          /\ concat_b = Suffix(in_raw, i)
    /\ result_a = NoResult
    /\ result_b = NoResult

\* the result of a call is a context and a text, not an error
IsClean(r) ==
    r.exc = "none" /\ r.normalized # NoneText /\ ~is_error_context(r.ctx)

\* the engine processes concat_a then concat_b, and the two at once
Concat ==
    /\ pc = "idle"
    /\ result' = process_raw_text(in_raw, in_ctx)
    /\ \E ra \in {process_raw_text(concat_a, in_ctx)} :
          /\ result_a' = ra
          /\ result_b' = IF IsClean(ra)
                         THEN process_raw_text(concat_b, ra.ctx)
                         ELSE NoResult
    /\ pc' = "compared"
    /\ UNCHANGED <<in_raw, in_ctx, raw_text, context, normalized,
                   prior_context, prior_raw_text, delim_type, attr_end,
                   attr_value_tail, ncalls, union_vars, concat_a, concat_b>>

SpecConcat == InitConcat /\ [][Concat]_vars

\* ------------------------------------------------------------ properties

\* s is a suffix of t
IsSuffix(s, t) == Len(s) <= Len(t) /\ Suffix(t, Len(t) - Len(s)) = s

\* what a step appends to the StringIO
Emitted == Suffix(normalized', Len(normalized))

\* C1: ERROR is absorbing: once the context of a call is an ERROR context
\* (produced by a scanner step, or passed in), no later step of the call,
\* the end of an attribute value included, moves it out of ERROR.
C1_ErrorAbsorbing ==
    [][is_error_context(context) => is_error_context(context')]_vars

CleanShape(r) ==
    /\ r.normalized # NoneText
    /\ r.err_ctx = NoneCtx
    /\ r.err_suffix = NoneText
ErrorShape(r) ==
    /\ is_error_context(r.ctx)
    /\ r.normalized = NoneText
    /\ r.err_ctx # NoneCtx
    /\ r.err_suffix # NoneText

\* C3, as stated: every return is (ctx, normalized, None, None) with ctx not
\* ERROR, or (ERROR, None, err_ctx, err_suffix).
C3_Original ==
    pc = "returned" =>
        \/ CleanShape(result) /\ ~ is_error_context(result.ctx)
        \/ ErrorShape(result)

\* C3, amended: every return is (ctx, normalized, None, None), where ctx is
\* ERROR only if raw is empty and the input context is that ERROR context,
\* or (ERROR, None, err_ctx, err_suffix), where err_ctx and err_suffix are
\* the context and the unconsumed text at the start of the iteration of the
\* driver loop that ended in ERROR, err_suffix a non-empty suffix of raw.
\* Every iteration records the two when it starts and keeps them to its end.
C3_ReturnShapes ==
    [][/\ pc = "loop" /\ raw_text # <<>> =>
              prior_context' = context /\ prior_raw_text' = raw_text
       /\ pc = "attr" => UNCHANGED <<prior_context, prior_raw_text>>
       /\ pc' = "returned" =>
           \/ /\ CleanShape(result')
              /\ result'.ctx = context'
              /\ result'.normalized = normalized'
              /\ is_error_context(result'.ctx) =>
                     in_raw' = <<>> /\ result'.ctx = in_ctx'
           \/ /\ ErrorShape(result')
              /\ result'.ctx = context'
              /\ result'.err_ctx = prior_context'
              /\ result'.err_suffix = prior_raw_text'
              /\ result'.err_suffix # <<>>
              /\ IsSuffix(result'.err_suffix, in_raw')]_vars

\* an error found in a later iteration than the first
C3_Witness ==
    /\ pc = "returned"
    /\ ErrorShape(result)
    /\ result.err_suffix # in_raw
    /\ result.err_ctx # in_ctx

\* the chunk of C4 and one without the equals sign
C4_Chunk == Chars("<a href=foo?x=1>")
C4_ChunkNoEquals == Chars("<a href=foo?x>")

\* C4, as stated: <a href=foo?x=1> from TEXT completes without error, ends
\* in TEXT and is normalized to <a href="foo?x=1">.
C4_Original ==
    in_ctx = STATE_TEXT /\ in_raw = C4_Chunk =>
        /\ pc # "raised"
        /\ pc = "returned" =>
               result = Returned(STATE_TEXT, Chars("<a href=\"foo?x=1\">"),
                                 NoneCtx, NoneText)

\* C4, amended: <a href=foo?x=1> from TEXT reaches the unquoted URL value
\* (the synthetic quote written) and there raises ContextUpdateFailure,
\* because the value holds an equals sign. The same tag without it,
\* <a href=foo?x>, completes: the value is scanned in state URL, the url
\* part is QUERY_OR_FRAG once the question mark is consumed, the context is
\* TAG after the value and TEXT at the end, the output <a href="foo?x">.
C4_HrefQuery ==
    /\ in_ctx = STATE_TEXT /\ in_raw = C4_Chunk =>
         /\ pc # "returned"
         /\ pc = "raised" =>
              /\ result = Raised("ContextUpdateFailure")
              /\ raw_text = Chars("foo?x=1>")
              /\ normalized = Chars("<a href=\"")
              /\ state_of(context) = "URL"
              /\ delim_type_of(context) = DELIM_SPACE_OR_TAG_END
    /\ in_ctx = STATE_TEXT /\ in_raw = C4_ChunkNoEquals =>
         /\ pc # "raised"
         /\ pc = "attr" =>
              /\ state_of(context) = "URL"
              /\ delim_type_of(context) = DELIM_SPACE_OR_TAG_END
              /\ url_part_of(context) =
                   IF attr_value_tail = Chars("foo?x") THEN URL_PART_NONE
                   ELSE URL_PART_QUERY_OR_FRAG
         /\ pc = "loop" /\ raw_text = <<">">> => context = STATE_TAG
         /\ pc = "returned" =>
              result = Returned(STATE_TEXT, Chars("<a href=\"foo?x\">"),
                                NoneCtx, NoneText)

C4_Witness ==
    /\ in_ctx = STATE_TEXT
    /\ in_raw = C4_Chunk
    /\ pc = "raised"
    /\ result = Raised("ContextUpdateFailure")

\* C5: at the head of the driver loop, in an unquoted attribute value whose
\* text before the first whitespace or '>' (or before the end of the chunk)
\* holds NUL, a quote, '<', '=' or a backquote, the call raises
\* ContextUpdateFailure: nothing is returned, no ERROR context either.
C5_BadUnquoted ==
    [][/\ pc = "loop"
       /\ delim_type_of(context) = DELIM_SPACE_OR_TAG_END
       /\ \E k \in 1..Len(raw_text) :
            /\ raw_text[k] \in {NUL, "\"", "'", "<", "=", BACKTICK}
            /\ \A j \in 1..k : raw_text[j] \notin SpaceChars \cup {">"}
       => /\ pc' = "raised"
          /\ result' = Raised("ContextUpdateFailure")
          /\ result'.ctx = NoneCtx
          /\ result'.normalized = NoneText]_vars

\* a bad character after the first one of the value
C5_Witness ==
    /\ pc = "raised"
    /\ result = Raised("ContextUpdateFailure")
    /\ delim_type_of(context) = DELIM_SPACE_OR_TAG_END
    /\ raw_text[1] \notin {NUL, "\"", "'", "<", "=", BACKTICK}

\* the characters of a text
CharsOf(text) == {text[k] : k \in 1..Len(text)}

\* C6: in the normalized output every attribute value is delimited. The
\* step that enters an unquoted value consumes nothing and writes one '"';
\* the step that enters a quoted value writes its quote last; the text
\* written for the tokens of a value holds no character equal to the quote
\* that will close it; the step that finds the end of a value writes one
\* closing quote, "'" for a single-quoted value and '"' otherwise, and
\* leaves the value for TAG; an empty value before '>' is written as "".
C6_ValuesDelimited ==
    [][/\ /\ pc = "loop"
          /\ delim_type_of(context) = DELIM_NONE
          /\ delim_type_of(context') = DELIM_SPACE_OR_TAG_END
          => Emitted = <<"\"">> /\ raw_text' = raw_text
       /\ /\ pc = "loop"
          /\ delim_type_of(context) = DELIM_NONE
          /\ delim_type_of(context') \in {DELIM_DOUBLE_QUOTE, DELIM_SINGLE_QUOTE}
          => /\ Emitted # <<>>
             /\ Emitted[Len(Emitted)] = DELIM_TEXT(delim_type_of(context'))[1]
       /\ pc = "attr" /\ attr_value_tail # <<>> /\ pc' = "attr" =>
            IF delim_type_of(prior_context) = DELIM_SINGLE_QUOTE
            THEN "'" \notin CharsOf(Emitted)
            ELSE "\"" \notin CharsOf(Emitted)
       /\ pc = "attr" /\ attr_value_tail = <<>> /\ attr_end # -1 =>
            /\ Emitted = IF delim_type_of(prior_context) = DELIM_SINGLE_QUOTE
                         THEN <<"'">> ELSE <<"\"">>
            /\ state_of(context') = "TAG"
            /\ delim_type_of(context') = DELIM_NONE
       /\ /\ pc = "loop"
          /\ state_of(context) = "BEFORE_VALUE"
          /\ raw_text # <<>>
          /\ raw_text[1] = ">"
          => /\ Emitted = <<"\"", "\"">>
             /\ state_of(context') = "TAG"
             /\ raw_text' = raw_text
       /\ pc' = "returned" /\ in_ctx' = STATE_TEXT =>
            /\ in_raw' = Chars("<input value=>") =>
                 result'.normalized = Chars("<input value=\"\">")
            /\ in_raw' = Chars("<a title='x'>") =>
                 result'.normalized = Chars("<a title='x'>")
            /\ in_raw' = Chars("<a href=foo?x>") =>
                 result'.normalized = Chars("<a href=\"foo?x\">")]_vars

\* a single-quoted value has just been closed
C6_Witness ==
    /\ pc = "loop"
    /\ in_ctx = STATE_TEXT
    /\ in_raw = Chars("<a title='x'>")
    /\ raw_text = <<">">>
    /\ normalized = Chars("<a title='x'")
    /\ context = STATE_TAG

\* C7, as stated: the normalized text of a non-ERROR result holds neither
\* <!-- nor -->, whatever the raw text and the input context.
C7_Original ==
    pc = "returned" /\ ~ is_error_context(result.ctx) =>
        /\ ~ Contains(result.normalized, L_CMT_OPEN)
        /\ ~ Contains(result.normalized, L_CMT_CLOSE)

\* C7, amended: HTML comments opened in TEXT are elided. The step that
\* matches <!-- in TEXT and every step taken in HTMLCMT write nothing, no
\* step taken in TEXT writes <!--, and <!-- comment --> from TEXT returns
\* TEXT and the empty text. (A --> outside a comment, and <!-- outside
\* TEXT, are copied: C7_Original fails on them.)
C7_CommentsElided ==
    [][/\ pc = "loop" /\ state_of(context) = "HTMLCMT" => Emitted = <<>>
       /\ /\ pc = "loop"
          /\ state_of(context) = "TEXT"
          /\ state_of(context') = "HTMLCMT"
          => Emitted = <<>> /\ LitAt(raw_text, 0, L_CMT_OPEN)
       /\ pc = "loop" /\ state_of(context) = "TEXT" =>
            ~ Contains(Emitted, L_CMT_OPEN)
       /\ /\ pc' = "returned"
          /\ in_ctx' = STATE_TEXT
          /\ in_raw' = Chars("<!-- comment -->")
          => result' = Returned(STATE_TEXT, <<>>, NoneCtx, NoneText)]_vars

C7_Witness ==
    /\ pc = "returned"
    /\ in_ctx = STATE_TEXT
    /\ in_raw = Chars("<!-- comment -->")
    /\ result = Returned(STATE_TEXT, <<>>, NoneCtx, NoneText)

\* the chunk of C8: a block comment that holds a newline
C8_Chunk == <<"/", "*", "\n", "*", "/">>

\* C8, as stated: /*\n*/ from JS returns JS and exactly one newline.
C8_Original ==
    /\ pc = "returned"
    /\ state_of(in_ctx) = "JS"
    /\ delim_type_of(in_ctx) = DELIM_NONE
    /\ in_raw = C8_Chunk
    => result.ctx = in_ctx /\ result.normalized = <<"\n">>

\* C8, amended: /*\n*/ from a JS context (in a script element or in a quoted
\* attribute value) returns the same context and the two characters space,
\* newline: the space is written for the opener of the comment, the newline
\* for its body.
C8_JsBlockComment ==
    /\ state_of(in_ctx) = "JS"
    /\ delim_type_of(in_ctx) # DELIM_SPACE_OR_TAG_END
    /\ in_raw = C8_Chunk
    => /\ pc # "raised"
       /\ pc = "returned" =>
            result = Returned(in_ctx, <<" ", "\n">>, NoneCtx, NoneText)

C8_Witness ==
    /\ pc = "returned"
    /\ in_ctx = WithElement(StateCtx("JS"), "SCRIPT")
    /\ in_raw = C8_Chunk
    /\ result.normalized = <<" ", "\n">>

\* text that starts with '<' and begins a start tag, an end tag, a comment
\* or a doctype
BeginsMarkup(t) ==
    \/ Len(t) >= 2 /\ t[2] \in AlphaChars
    \/ Len(t) >= 3 /\ t[2] = "/" /\ t[3] \in AlphaChars
    \/ LitAt(t, 0, L_CMT_OPEN)
    \/ LitAtI(t, 1, L_DOCTYPE)

\* C9, as stated: every '<' scanned in TEXT that begins no start tag, end
\* tag, comment or doctype is written as &lt; and the state stays TEXT.
C9_Original ==
    [][/\ pc = "loop"
       /\ state_of(context) = "TEXT"
       /\ raw_text # <<>>
       /\ raw_text[1] = "<"
       /\ ~ BeginsMarkup(raw_text)
       => Emitted = Chars("&lt;") /\ state_of(context') = "TEXT"]_vars

\* C9, amended: a '<' scanned in TEXT that begins no start tag, end tag,
\* comment or doctype is written as &lt; and the context stays as it is,
\* unless the chunk ends with that '<' or with the '/' after it: then '<' or
\* '</' is written as it is and the state becomes HTML_BEFORE_TAG_NAME. A
\* run of other characters is copied up to the next '<'.
C9_StrayLt ==
    [][pc = "loop" /\ state_of(context) = "TEXT" /\ raw_text # <<>> =>
         IF raw_text[1] # "<"
         THEN /\ Emitted = Prefix(raw_text, RunEndNot(raw_text, 0, {"<"}))
              /\ raw_text' = Suffix(raw_text, Len(Emitted))
              /\ context' = context
         ELSE IF BeginsMarkup(raw_text) THEN Emitted # Chars("&lt;")
         ELSE IF raw_text \in {<<"<">>, <<"<", "/">>}
         THEN /\ Emitted = raw_text
              /\ state_of(context') = "HTML_BEFORE_TAG_NAME"
         ELSE /\ Emitted = Chars("&lt;")
              /\ raw_text' = Suffix(raw_text, 1)
              /\ context' = context]_vars

\* a '<' before a digit has been escaped
C9_Witness ==
    /\ pc = "loop"
    /\ in_ctx = STATE_TEXT
    /\ in_raw = Chars("<1")
    /\ raw_text = <<"1">>
    /\ normalized = Chars("&lt;")
    /\ context = STATE_TEXT

\* a and b are equal in every field except the named one
DifferOnlyIn(a, b, field) ==
    /\ a[field] # b[field]
    /\ \A f \in DOMAIN a \ {field} : a[f] = b[f]

\* C10: context_union of two contexts that are equal in every field except
\* js-ctx is the first with js-ctx UNKNOWN, so JS|DIV_OP joined with
\* JS|REGEX is JS|UNKNOWN; of two contexts equal in every field except
\* url-part it is the first with url-part UNKNOWN; every other field of the
\* result is that of both arguments.
C10_UnionWidens ==
    pc = "joined" =>
        /\ DifferOnlyIn(context0, context1, "js_ctx") =>
             /\ union = [context0 EXCEPT !.js_ctx = JS_CTX_UNKNOWN]
             /\ \A f \in DOMAIN union \ {"js_ctx"} :
                  union[f] = context0[f] /\ union[f] = context1[f]
        /\ DifferOnlyIn(context0, context1, "url_part") =>
             /\ union = [context0 EXCEPT !.url_part = URL_PART_UNKNOWN]
             /\ \A f \in DOMAIN union \ {"url_part"} :
                  union[f] = context0[f] /\ union[f] = context1[f]
        /\ /\ context0 = JsIn(ELEMENT_NONE, ATTR_NONE, DELIM_NONE, JS_CTX_DIV_OP)
           /\ context1 = JsIn(ELEMENT_NONE, ATTR_NONE, DELIM_NONE, JS_CTX_REGEX)
           => union = JsIn(ELEMENT_NONE, ATTR_NONE, DELIM_NONE, JS_CTX_UNKNOWN)

\* JS|DIV_OP and JS|REGEX have been joined
C10_Witness ==
    /\ pc = "joined"
    /\ context0 = JsIn(ELEMENT_NONE, ATTR_NONE, DELIM_NONE, JS_CTX_DIV_OP)
    /\ context1 = JsIn(ELEMENT_NONE, ATTR_NONE, DELIM_NONE, JS_CTX_REGEX)
    /\ union = JsIn(ELEMENT_NONE, ATTR_NONE, DELIM_NONE, JS_CTX_UNKNOWN)

\* C11: context_union is commutative: joining context0 with context1 gives
\* the context that joining context1 with context0 gives, whether the
\* arguments are equal, widened in js-ctx or url-part, nudged by an epsilon
\* transition, or inconsistent.
C11_UnionCommutes ==
    pc = "joined" => union = context_union(context1, context0)

\* ATTR_NAME has been joined with TAG: only the first argument is nudged,
\* through AFTER_NAME, and the join is TAG
C11_Witness ==
    /\ pc = "joined"
    /\ context0 = StateCtx("ATTR_NAME")
    /\ context1 = STATE_TAG
    /\ force_epsilon_transition(context0) # context0
    /\ force_epsilon_transition(context1) = context1
    /\ union = STATE_TAG

C14_Chunk == Chars("<a onclick=\"alert(&quot;hi&quot;)\">")
C14_Payload == Chars("alert(&quot;hi&quot;)")
C14_Decoded == Chars("alert(\"hi\")")

\* C14: in process_raw_text('<a onclick="alert(&quot;hi&quot;)">', TEXT) the
\* attribute value ends at the literal '"' and not at an entity; the scanner
\* runs on the decoded value alert("hi"), where it is in JSDQ_STR exactly
\* between the two decoded quotes and in JS before and after them; the end
\* of the value puts the context in TAG, and the call returns TEXT with the
\* value re-encoded, which is the text as it was passed in.
C14_EntityDelimiters ==
    [][in_raw' = C14_Chunk /\ in_ctx' = STATE_TEXT =>
         /\ pc' = "attr" =>
              /\ raw_text' = C14_Payload \o Chars("\">")
              /\ attr_end' = Len(C14_Payload) + 1
              /\ IsSuffix(attr_value_tail', C14_Decoded)
              /\ delim_type_of(context') = DELIM_DOUBLE_QUOTE
              /\ state_of(context') =
                   IF Count(attr_value_tail', "\"") = 1
                   THEN "JSDQ_STR" ELSE "JS"
         /\ pc = "attr" /\ pc' = "loop" =>
              /\ attr_value_tail = <<>>
              /\ state_of(context) = "JS"
              /\ context' = STATE_TAG
              /\ raw_text' = <<">">>
         /\ pc' = "returned" =>
              result' = Returned(STATE_TEXT, C14_Chunk, NoneCtx, NoneText)
         /\ pc' # "raised"]_vars

\* the scanner is inside the JS string that the decoded &quot; opened
C14_Witness ==
    /\ in_raw = C14_Chunk
    /\ in_ctx = STATE_TEXT
    /\ pc = "attr"
    /\ attr_value_tail = Chars("hi\")")
    /\ state_of(context) = "JSDQ_STR"
    /\ normalized = Chars("<a onclick=\"alert(&quot;")

\* the text starts with a '/' that opens neither '/*' nor '//'
LoneSlashAt0(text) ==
    /\ text # <<>>
    /\ text[1] = "/"
    /\ Len(text) >= 2 => text[2] \notin {"*", "/"}

\* C15: _process_next_token in state JS on a text that starts with a '/'
\* opening no comment: with js-ctx DIV_OP it consumes the '/' and stays in
\* state JS with js-ctx REGEX; with js-ctx REGEX it consumes the '/' and
\* goes to state JSREGEXP; with js-ctx UNKNOWN it raises
\* ContextUpdateFailure. Where it does not raise, element, attribute
\* kind, delimiter and url-part are those of the context passed in.
C15_Slash ==
    state_of(in_ctx) = "JS" /\ LoneSlashAt0(in_raw) /\ pc # "idle" =>
        /\ js_ctx_of(in_ctx) = JS_CTX_DIV_OP =>
             /\ pc = "scanned"
             /\ context = [in_ctx EXCEPT !.js_ctx = JS_CTX_REGEX]
             /\ raw_text = Tail(in_raw)
        /\ js_ctx_of(in_ctx) = JS_CTX_REGEX =>
             /\ pc = "scanned"
             /\ state_of(context) = "JSREGEXP"
             /\ raw_text = Tail(in_raw)
        /\ js_ctx_of(in_ctx) = JS_CTX_UNKNOWN =>
             /\ pc = "raised"
             /\ result = Raised("ContextUpdateFailure")
        /\ pc = "scanned" =>
             /\ normalized = <<"/">>
             /\ \A f \in {"element", "attr", "delim", "url_part"} :
                  context[f] = in_ctx[f]

\* a '/' has been scanned after a value inside a double-quoted script
\* attribute: the state is still JS
C15_Witness ==
    /\ pc = "scanned"
    /\ in_raw = <<"/", "a">>
    /\ in_ctx = JsIn(ELEMENT_NONE, ATTR_SCRIPT, DELIM_DOUBLE_QUOTE,
                     JS_CTX_DIV_OP)
    /\ context = JsIn(ELEMENT_NONE, ATTR_SCRIPT, DELIM_DOUBLE_QUOTE,
                      JS_CTX_REGEX)
    /\ raw_text = <<"a">>

\* no token straddles the cut: in the call on the whole text a pass of the
\* outer loop starts exactly at the cut
CutAtLoopHead == Len(concat_b) \in LoopHeads(in_raw, in_ctx)

\* the first text ends with a '<' read in state TEXT as the start of a tag
EndsWithOpenLt ==
    /\ concat_a # <<>>
    /\ concat_a[Len(concat_a)] = "<"
    /\ IsClean(result_a)
    /\ result_a.ctx = StateCtx("HTML_BEFORE_TAG_NAME")

\* what the call on the whole text returns when the two calls chain
Chained ==
    Returned(result_b.ctx, result_a.normalized \o result_b.normalized,
             NoneCtx, NoneText)

EpsilonRank(ctx) ==
    CASE state_of(ctx) \in {"ATTR_NAME", "BEFORE_VALUE"} -> 2
      [] state_of(ctx) \in {"AFTER_NAME", "TAG_NAME",
                            "HTML_BEFORE_TAG_NAME"} -> 1
      [] delim_type_of(ctx) # DELIM_NONE -> 1
      [] OTHER -> 0

\* the loops' progress: text left, then rank, then the inner loop's text
LoopMeasure(raw, ctx, at, tail) ==
    <<Len(raw), EpsilonRank(ctx), IF at = "loop" THEN 1 ELSE 0, Len(tail)>>
RECURSIVE LexLess(_, _)
LexLess(x, y) ==
    /\ x # <<>>
    /\ \/ Head(x) < Head(y)
       \/ Head(x) = Head(y) /\ LexLess(Tail(x), Tail(y))

\* no text in no context makes the scanner raise its infinite-loop exception
ScanNeverLoops == result.exc # "Exception"

\* C17: every call of process_raw_text ends: the scanner never raises its
\* infinite-loop exception (no token consumes nothing and leaves the state
\* as it was), and every pass of the outer or of the inner loop that leaves
\* the call in its loops consumes text or, consuming nothing, moves down
\* the chain of transitions without consumption (ATTR_NAME to AFTER_NAME to
\* TAG, TAG_NAME to TAG, HTML_BEFORE_TAG_NAME to TEXT, BEFORE_VALUE to TAG
\* or to an unquoted value, an empty unquoted value to TAG), which has no
\* cycle: the loops cannot go on forever.
C17_Terminates ==
    [][/\ result'.exc # "Exception"
       /\ pc \in {"loop", "attr"} /\ pc' \in {"loop", "attr"} =>
            LexLess(LoopMeasure(raw_text', context', pc', attr_value_tail'),
                    LoopMeasure(raw_text, context, pc, attr_value_tail))]_vars

\* a call has returned after four passes that consumed nothing: TAG_NAME to
\* TAG, ATTR_NAME to AFTER_NAME, BEFORE_VALUE to TAG
C17_Witness ==
    /\ pc = "returned"
    /\ in_ctx = STATE_TEXT
    /\ in_raw = Chars("<input value=>")
    /\ result = Returned(STATE_TEXT, Chars("<input value=\"\">"),
                         NoneCtx, NoneText)

\* the rules of the state of in_ctx whose pattern matches in_raw and which
\* are applicable, and the match of each
ScanRules == _TRANSITIONS(state_of(in_ctx))
ScanMatch(k) == PatternSearch(ScanRules[k].pattern, in_raw)
ScanCandidates ==
    {k \in 1..Len(ScanRules) :
       /\ ScanMatch(k).start >= 0
       /\ is_applicable_to(ScanRules[k], in_ctx, ScanMatch(k))}

\* C18: for a context that is not an ERROR context, _process_next_token
\* acts by the applicable rule whose match starts earliest, the first of
\* them in the table if several start there: it consumes up to the end of
\* that match and returns that rule's next context and replacement text
\* (or raises what that rule raises); if no rule matches and is
\* applicable it consumes the whole text and returns the ERROR sentinel and
\* the text unchanged.
C18_EarliestRule ==
    pc # "idle" /\ ~is_error_context(in_ctx) =>
        IF ScanCandidates = {}
        THEN /\ pc = "scanned"
             /\ raw_text = <<>>
             /\ context = STATE_ERROR
             /\ normalized = in_raw
        ELSE \E k \in ScanCandidates :
               /\ \A j \in ScanCandidates :
                    \/ ScanMatch(k).start < ScanMatch(j).start
                    \/ ScanMatch(k).start = ScanMatch(j).start /\ k <= j
               /\ IF compute_raises(ScanRules[k], in_ctx) # "none"
                  THEN /\ pc = "raised"
                       /\ result = Raised(compute_raises(ScanRules[k], in_ctx))
                  ELSE /\ pc = "scanned"
                       /\ raw_text = Suffix(in_raw, ScanMatch(k).end)
                       /\ context = compute_next_context(
                                       ScanRules[k], in_ctx, ScanMatch(k), in_raw)
                       /\ normalized =
                            raw_text_of(ScanRules[k], ScanMatch(k), in_raw)

\* in TEXT on '</' the rule for '</' and the rule for '<' both match at the
\* start: the first of the two in the table has acted
C18_Witness ==
    /\ pc = "scanned"
    /\ in_ctx = STATE_TEXT
    /\ in_raw = <<"<", "/">>
    /\ Cardinality({k \in ScanCandidates : ScanMatch(k).start = 0}) = 2
    /\ context = WithElement(StateCtx("HTML_BEFORE_TAG_NAME"), "CLOSE")
    /\ raw_text = <<>>

\* C19: when the end of an attribute value is found, the context after it
\* is TAG with delimiter NONE, attribute kind NONE and the element that
\* the context had when the pass over the value began, whatever the value.
C19_ElementKept ==
    [][pc = "attr" /\ pc' = "loop" /\ attr_end # -1 =>
         context' = WithElement(STATE_TAG, element_type_of(prior_context))]_vars

\* the value of an attribute of a script tag has ended after the scanner
\* went to ERROR in it: the tag's element is lost
C19_ElementLost ==
    /\ pc = "loop"
    /\ element_type_of(prior_context) = "SCRIPT"
    /\ delim_type_of(prior_context) = DELIM_DOUBLE_QUOTE
    /\ prior_raw_text = <<"\\", "\"", ">">>
    /\ raw_text = <<">">>
    /\ context = STATE_TAG

\* the states outside attribute values and element bodies, the states of
\* attribute values and of element bodies
MarkupStates ==
    {"TEXT", "RCDATA", "HTML_BEFORE_TAG_NAME", "TAG_NAME", "TAG", "HTMLCMT"}
ScriptStyleStates ==
    {"JS", "JSBLOCK_CMT", "JSLINE_CMT", "JSDQ_STR", "JSSQ_STR", "JSREGEXP",
     "CSS", "CSSBLOCK_CMT", "CSSLINE_CMT", "CSSDQ_STR", "CSSSQ_STR",
     "CSS_URL", "CSSDQ_URL", "CSSSQ_URL"}
ValueStates == {"ATTR", "URL"} \cup ScriptStyleStates

\* the fields of ctx fit its state
FieldsFit(ctx) ==
    /\ state_of(ctx) \in MarkupStates =>
         delim_type_of(ctx) = DELIM_NONE /\ attr_type_of(ctx) = ATTR_NONE
    /\ state_of(ctx) \in ScriptStyleStates =>
         (delim_type_of(ctx) = DELIM_NONE <=> attr_type_of(ctx) = ATTR_NONE)
    /\ state_of(ctx) \in {"ATTR_NAME", "AFTER_NAME", "BEFORE_VALUE"} =>
         delim_type_of(ctx) = DELIM_NONE

\* a delimiter appears in a step out of BEFORE_VALUE into a value state
DelimFromBeforeValue ==
    delim_type_of(context) = DELIM_NONE
    /\ delim_type_of(context') # DELIM_NONE =>
        /\ state_of(context) = "BEFORE_VALUE"
        /\ state_of(context') \in ValueStates

\* C20: in every context that calls of process_raw_text reach from TEXT:
\* in TEXT, RCDATA, HTML_BEFORE_TAG_NAME, TAG_NAME, TAG and HTMLCMT the
\* delimiter and the attribute kind are NONE; in a JS or CSS state the
\* delimiter is NONE exactly if the attribute kind is NONE (an element
\* body); a delimiter is set only by a step from BEFORE_VALUE into a value
\* state (ATTR, URL, JS and CSS states), and a context with a delimiter is
\* in a value state or is an ERROR context that arose inside the value.
C20_FieldsConsistent ==
    [][/\ FieldsFit(context')
       /\ DelimFromBeforeValue
       /\ delim_type_of(context') # DELIM_NONE =>
            state_of(context') \in ValueStates \cup {"ERROR"}]_vars

\* C20 as stated: a context with a delimiter is in a value state
C20_Original ==
    [][/\ FieldsFit(context')
       /\ DelimFromBeforeValue
       /\ delim_type_of(context') # DELIM_NONE =>
            state_of(context') \in ValueStates]_vars

\* a double-quoted script attribute value has just been entered from
\* BEFORE_VALUE
C20_Witness ==
    /\ pc = "loop"
    /\ state_of(prior_context) = "BEFORE_VALUE"
    /\ delim_type_of(prior_context) = DELIM_NONE
    /\ context = JsIn(ELEMENT_NONE, ATTR_SCRIPT, DELIM_DOUBLE_QUOTE,
                      JS_CTX_REGEX)

\* ---------------------------------------------------------------- C21
\* how far along a URL the url-part field says the scanner is
UrlRank(ctx) ==
    CASE url_part_of(ctx) = URL_PART_NONE -> 0
      [] url_part_of(ctx) = URL_PART_PRE_QUERY -> 1
      [] url_part_of(ctx) = URL_PART_QUERY_OR_FRAG -> 2
      [] OTHER -> 3

\* a scanner step inside the value of a URL attribute
UrlStep ==
    /\ pc = "attr" /\ pc' = "attr"
    /\ attr_value_tail # <<>>
    /\ state_of(context) = "URL" /\ attr_type_of(context) = ATTR_URL
    /\ state_of(context') = "URL"

\* what that step consumed
UrlConsumed == Prefix(attr_value_tail, Len(attr_value_tail) - Len(attr_value_tail'))

QueryChars == {"?", "#"}

\* C21: in the value of a URL attribute every scanner step moves url-part
\* forward along NONE, PRE_QUERY, QUERY_OR_FRAG or leaves it: it leaves NONE
\* only when the step consumed a character that is not whitespace, it
\* becomes QUERY_OR_FRAG exactly when the step consumed a '?' or '#', the
\* first one being the last character consumed, and no step of
\* process_raw_text makes url-part UNKNOWN.
C21_UrlPartForward ==
    [][/\ url_part_of(context) # URL_PART_UNKNOWN
            => url_part_of(context') # URL_PART_UNKNOWN
       /\ UrlStep =>
            /\ UrlRank(context') >= UrlRank(context)
            /\ UrlRank(context') \in 0..2
            /\ UrlRank(context) = 0 /\ UrlRank(context') > 0
                 => \E k \in 1..Len(UrlConsumed) :
                       UrlConsumed[k] \notin SpaceChars
            /\ UrlRank(context) = 0 /\ UrlRank(context') = 0
                 => \A k \in 1..Len(UrlConsumed) :
                       UrlConsumed[k] \in SpaceChars
            /\ UrlRank(context) < 2 =>
                 (UrlRank(context') = 2
                    <=> /\ UrlConsumed # <<>>
                        /\ UrlConsumed[Len(UrlConsumed)] \in QueryChars)
            /\ \A k \in 1..(Len(UrlConsumed) - 1) :
                  UrlConsumed[k] \notin QueryChars]_vars

\* a call that took the url-part from PRE_QUERY to QUERY_OR_FRAG has
\* returned, the call before it having left NONE
C21_Witness ==
    /\ pc = "returned"
    /\ ncalls = 3
    /\ state_of(in_ctx) = "URL"
    /\ url_part_of(in_ctx) = URL_PART_PRE_QUERY
    /\ in_raw = Chars("?a>")
    /\ result.ctx = STATE_TEXT

\* ---------------------------------------------------------------- C22
\* the end-tag rule of the state of in_ctx, 0 if it has none
EndTagRule ==
    IF \E k \in 1..Len(ScanRules) :
          ScanRules[k].cls = "_EndTagTransition"
          \/ /\ ScanRules[k].cls = "_NormalizeTransition"
             /\ ScanRules[k].transition.cls = "_EndTagTransition"
    THEN CHOOSE k \in 1..Len(ScanRules) :
          ScanRules[k].cls = "_EndTagTransition"
          \/ /\ ScanRules[k].cls = "_NormalizeTransition"
             /\ ScanRules[k].transition.cls = "_EndTagTransition"
    ELSE 0

\* in_raw begins with the end tag of the element whose body in_ctx is in
BeginsWithOwnEndTag ==
    \/ /\ state_of(in_ctx) \in JsFamilyStates
       /\ PatternSearch(RE_SCRIPT_TAG_END, in_raw).start = 0
    \/ /\ state_of(in_ctx) \in CssFamilyStates
       /\ PatternSearch(RE_STYLE_TAG_END, in_raw).start = 0

\* the step taken was the end-tag rule
TookEndTagRule ==
    /\ EndTagRule \in ScanCandidates
    /\ \A j \in ScanCandidates :
          \/ ScanMatch(EndTagRule).start < ScanMatch(j).start
          \/ ScanMatch(EndTagRule).start = ScanMatch(j).start
             /\ EndTagRule <= j

\* the end tag of the enclosing element is taken in every state of a
\* script or style body, and the end-tag rule is never taken inside an
\* attribute value (the part of C22 that the code keeps)
EndTagOnlyInBody ==
    pc # "idle" /\ state_of(in_ctx) \in JsFamilyStates \cup CssFamilyStates =>
        /\ attr_type_of(in_ctx) = ATTR_NONE /\ BeginsWithOwnEndTag =>
             /\ TookEndTagRule
             /\ pc = "scanned"
             /\ context = WithElement(STATE_TAG, ELEMENT_NONE)
        /\ attr_type_of(in_ctx) # ATTR_NONE => ~TookEndTagRule

\* C22: in every state of a script or style body (attribute kind NONE) a
\* text that begins with the end tag of that element moves to TAG with
\* element NONE; in the same states inside an attribute value (attribute
\* kind not NONE) the end-tag rule is never taken, and after such a text
\* the context is still in the attribute value: same attribute kind and
\* delimiter, a state of the same family.
C22_EndTag ==
    pc # "idle" /\ state_of(in_ctx) \in JsFamilyStates \cup CssFamilyStates =>
        /\ attr_type_of(in_ctx) = ATTR_NONE /\ BeginsWithOwnEndTag =>
             /\ pc = "scanned"
             /\ context = WithElement(STATE_TAG, ELEMENT_NONE)
        /\ attr_type_of(in_ctx) # ATTR_NONE => ~TookEndTagRule
        /\ attr_type_of(in_ctx) # ATTR_NONE /\ BeginsWithOwnEndTag =>
             /\ pc = "scanned"
             /\ attr_type_of(context) = attr_type_of(in_ctx)
             /\ delim_type_of(context) = delim_type_of(in_ctx)
             /\ state_of(in_ctx) \in JsFamilyStates
                  => state_of(context) \in JsFamilyStates
             /\ state_of(in_ctx) \in CssFamilyStates
                  => state_of(context) \in CssFamilyStates

\* '</script' scanned in a JS string of an attribute value: no rule is
\* applicable and the scanner has left the value for the ERROR sentinel
C22_LeftValue ==
    /\ pc = "scanned"
    /\ in_raw = Chars("</script")
    /\ state_of(in_ctx) = "JSDQ_STR"
    /\ attr_type_of(in_ctx) = ATTR_SCRIPT
    /\ ScanCandidates = {}
    /\ context = STATE_ERROR

\* ---------------------------------------------------------------- C23
\* the offset of the first '<' of in_raw, -1 if it has none
FirstLt ==
    IF \E k \in 1..Len(in_raw) : in_raw[k] = "<"
    THEN SetMin({k \in 1..Len(in_raw) : in_raw[k] = "<"}) - 1
    ELSE -1

\* where the end tag that starts at the first '<' ends, -1 if none starts
\* there; its name is the run of letters and hyphens after '</'
FirstLtTagEnd == IF FirstLt < 0 THEN -1 ELSE E_RcdataEnd(in_raw, FirstLt)
FirstLtTagName ==
    IF FirstLtTagEnd < 0 THEN <<>>
    ELSE LowerSeq(SubSeq(in_raw, FirstLt + 3, FirstLtTagEnd))

\* C23: a scanner step in RCDATA inside element E (textarea, title,
\* listing, xmp) leaves RCDATA only at an end tag whose lowercased name is
\* E's, and then for TAG with element NONE; a text without '<' is consumed
\* unchanged; at any other '<', that of another element's end tag
\* included, the step consumes up to that '<', writes &lt; for it and
\* stays in RCDATA with element E, whatever follows it.
C23_RcdataExit ==
    pc # "idle" /\ in_ctx \in RcdataContexts =>
        /\ pc = "scanned"
        /\ IF FirstLt < 0
           THEN /\ context = in_ctx
                /\ raw_text = <<>>
                /\ normalized = in_raw
           ELSE IF FirstLtTagName = _ELEMENT_TO_TAG_NAME(element_type_of(in_ctx))
           THEN /\ context = WithElement(STATE_TAG, ELEMENT_NONE)
                /\ raw_text = Suffix(in_raw, FirstLtTagEnd)
                /\ normalized = Prefix(in_raw, FirstLtTagEnd)
           ELSE /\ context = in_ctx
                /\ raw_text = Suffix(in_raw, FirstLt + 1)
                /\ normalized = Prefix(in_raw, FirstLt) \o Chars("&lt;")

\* in a textarea, the '<' of '</b>' was rewritten and the scanner stayed in
\* RCDATA although '</textarea>' follows
C23_Witness ==
    /\ pc = "scanned"
    /\ in_ctx = WithElement(StateCtx("RCDATA"), "TEXTAREA")
    /\ in_raw = Chars("</b></textarea>")
    /\ context = in_ctx
    /\ normalized = Chars("&lt;")
    /\ raw_text = Chars("/b></textarea>")

\* ---------------------------------------------------------------- C24
\* t is one complete start tag: '<', a letter, ..., '>'
IsStartTag(t) ==
    /\ Len(t) >= 3
    /\ t[1] = "<" /\ t[2] \in AlphaChars /\ t[Len(t)] = ">"
    /\ Count(t, "<") = 1 /\ Count(t, ">") = 1

\* the element type that goes with the name of the start tag t
StartTagElement(t) ==
    LET name == LowerSeq(SubSeq(t, 2, RunEnd(t, 1, AlnumChars)))
    IN CASE name = Chars("script") -> "SCRIPT"
         [] name = Chars("style") -> "STYLE"
         [] name = Chars("listing") -> "LISTING"
         [] name = Chars("textarea") -> "TEXTAREA"
         [] name = Chars("title") -> "TITLE"
         [] name = Chars("xmp") -> "XMP"
         [] OTHER -> ELEMENT_NONE

\* C24: process_raw_text called in TEXT with one complete start tag
\* returns the body context of the tag's element with the element
\* recorded: JS with REGEX and SCRIPT for script, CSS with STYLE for style,
\* RCDATA with the element for listing, textarea, title and xmp, and TEXT
\* with element NONE for any other tag.
C24_StartTagBody ==
    pc = "returned" /\ in_ctx = STATE_TEXT /\ IsStartTag(in_raw) =>
        result.ctx = _TagDoneTransition_next(
                        WithElement(STATE_TAG, StartTagElement(in_raw)))

\* the same for every start tag but listing, which the TEXT table does not
\* know and which ends in TEXT like the tag of an ordinary element
StartTagBodyButListing ==
    pc = "returned" /\ in_ctx = STATE_TEXT /\ IsStartTag(in_raw) =>
        result.ctx =
          IF StartTagElement(in_raw) = "LISTING" THEN STATE_TEXT
          ELSE _TagDoneTransition_next(
                  WithElement(STATE_TAG, StartTagElement(in_raw)))

\* '<listing>' processed from TEXT has returned TEXT
C24_ListingIsText ==
    /\ pc = "returned"
    /\ in_ctx = STATE_TEXT
    /\ in_raw = Chars("<listing>")
    /\ result.ctx = STATE_TEXT

\* ---------------------------------------------------------------- C25
\* a text with every ' and " swapped, and a context with the two states of
\* a quoted CSS string swapped
Mirror(t) ==
    [k \in 1..Len(t) |->
       IF t[k] = "'" THEN "\"" ELSE IF t[k] = "\"" THEN "'" ELSE t[k]]
MirrorCtx(ctx) ==
    IF state_of(ctx) = "CSSSQ_STR" THEN [ctx EXCEPT !.state = "CSSDQ_STR"]
    ELSE IF state_of(ctx) = "CSSDQ_STR" THEN [ctx EXCEPT !.state = "CSSSQ_STR"]
    ELSE ctx

\* no rule of the state of ctx matches text and is applicable
NoRuleMatches(text, ctx) == earliest_transition(text, ctx)[1] = 0

\* C25: the catch-all self transition that CSSSQ_STR lacks changes
\* nothing. In CSSSQ_STR some rule matches every text (the URL-part rule
\* matches at the end of the text at the latest), and the scan of a text in
\* CSSSQ_STR is the mirror image of the scan of the mirrored text in
\* CSSDQ_STR: as much is consumed, the next context and the replacement
\* text are mirrored.
C25_MirrorImages ==
    pc # "idle" /\ state_of(in_ctx) = "CSSSQ_STR" =>
        /\ ScanCandidates # {}
        /\ pc = "scanned"
        /\ \E r \in {_process_next_token(Mirror(in_raw), MirrorCtx(in_ctx))} :
              /\ r.exc = "none"
              /\ raw_text = Suffix(in_raw, r.num_consumed)
              /\ context = MirrorCtx(r.next_context)
              /\ normalized = Mirror(r.normalized_text)

\* C25 as stated: there is a text that CSSSQ_STR sends to ERROR because no
\* rule matches it while CSSDQ_STR does not send the mirrored text to ERROR
C25_Original ==
    \E c \in CssStrTexts \X CssStrContexts :
       /\ state_of(c[2]) = "CSSSQ_STR"
       /\ NoRuleMatches(c[1], c[2])
       /\ ~is_error_context(
              _process_next_token(Mirror(c[1]), MirrorCtx(c[2])).next_context)

\* a text without quote, escape or '?' was scanned in CSSSQ_STR: only the
\* URL-part rule matched, at the end of the text, and the scanner stayed
\* in the string, as CSSDQ_STR does where the catch-all also matches
C25_Witness ==
    /\ pc = "scanned"
    /\ state_of(in_ctx) = "CSSSQ_STR"
    /\ in_raw = <<"a", "a">>
    /\ ScanCandidates = {3}
    /\ T_CSSSQ_STR[3] = _CSSURL_PART_TRANSITION
    /\ context = [in_ctx EXCEPT !.url_part = URL_PART_PRE_QUERY]
    /\ raw_text = <<>>
    /\ PatternSearch(T_CSSDQ_STR[6].pattern, Mirror(in_raw)).start = 2
    /\ T_CSSDQ_STR[6] = _TRANSITION_TO_SELF

\* ---------------------------------------------------------------- C26
\* the chunks of JS that hold whole block comments between other tokens
JsCommentChunks ==
    {Chars("1-/**/-1"), Chars("x</**//script"), Chars("a/*b*/c"),
     Chars("a/***/b"), Chars("/*/*/x"), <<"/", "*", "\n", "*", "/">>,
     <<"a", "/", "*", " ", "\n", "b", "*", "/", "c", "/", "*", "*", "/">>}

\* the offset behind the first '*/' at or after offset k of t, -1 if none
CommentClose(t, k) ==
    IF \E j \in k..Len(t) : LitAt(t, j, <<"*", "/">>)
    THEN SetMin({j \in k..Len(t) : LitAt(t, j, <<"*", "/">>)}) + 2
    ELSE -1

\* t with every whole block comment replaced by a space, and by a newline
\* after it if the comment holds a line terminator
RECURSIVE CommentsReplaced(_)
CommentsReplaced(t) ==
    IF t = <<>> THEN <<>>
    ELSE IF LitAt(t, 0, <<"/", "*">>) /\ CommentClose(t, 2) >= 0
    THEN <<" ">>
         \o (IF \E k \in 3..CommentClose(t, 2) : t[k] \in NLS
             THEN <<"\n">> ELSE <<>>)
         \o CommentsReplaced(Suffix(t, CommentClose(t, 2)))
    ELSE <<t[1]>> \o CommentsReplaced(Suffix(t, 1))

\* C26: process_raw_text in state JS writes for every whole block comment
\* of the text a space, followed by a newline if the comment holds a line
\* terminator, and the rest of the text as it is: the tokens on the two
\* sides of a comment are never joined.
C26_CommentSeparates ==
    pc \in {"returned", "raised"} /\ state_of(in_ctx) = "JS"
    /\ in_raw \in JsCommentChunks =>
        /\ pc = "returned"
        /\ ~is_error_context(result.ctx)
        /\ result.normalized = CommentsReplaced(in_raw)
        /\ \E k \in 1..Len(result.normalized) :
              result.normalized[k] \in SpaceChars

\* 1-/**/-1 in a script element was written as 1- -1
C26_Witness ==
    /\ pc = "returned"
    /\ in_ctx = JsIn("SCRIPT", ATTR_NONE, DELIM_NONE, JS_CTX_REGEX)
    /\ in_raw = Chars("1-/**/-1")
    /\ result.normalized = Chars("1- -1")

\* ---------------------------------------------------------------- C27
\* _process_next_token applied again and again to what is left of a text
\* until the text is consumed or the state is no longer that of a quoted
\* CSS string: how much is then left, and the context
RECURSIVE StringScan(_, _)
StringScan(text, ctx) ==
    IF text = <<>> \/ state_of(ctx) \notin {"CSSDQ_STR", "CSSSQ_STR"}
    THEN [left |-> Len(text), ctx |-> ctx]
    ELSE CHOOSE e \in {StringScan(Suffix(text, r.num_consumed), r.next_context) :
                         r \in {_process_next_token(text, ctx)}} : TRUE

\* the quote that delimits the string of state s
StringQuote(s) == IF s = "CSSDQ_STR" THEN "\"" ELSE "'"

\* the number of consecutive backslashes that end at position k of t
RECURSIVE BackslashRun(_, _)
BackslashRun(t, k) ==
    IF k >= 1 /\ t[k] = "\\" THEN 1 + BackslashRun(t, k - 1) ELSE 0

\* the position of the first q in t preceded by an even number of
\* consecutive backslashes, 0 if there is none
FirstUnescapedQuote(t, q) ==
    IF \E k \in 1..Len(t) : t[k] = q /\ BackslashRun(t, k - 1) % 2 = 0
    THEN SetMin({k \in 1..Len(t) : t[k] = q /\ BackslashRun(t, k - 1) % 2 = 0})
    ELSE 0

\* the position of the first q in t not directly preceded by a backslash
FirstQuoteNotAfterBackslash(t, q) ==
    IF \E k \in 1..Len(t) : t[k] = q /\ BackslashRun(t, k - 1) = 0
    THEN SetMin({k \in 1..Len(t) : t[k] = q /\ BackslashRun(t, k - 1) = 0})
    ELSE 0

\* a text of a string without line break, where the only ways out of the
\* string state are its quote and the end of the text
OneLine(t) == \A k \in 1..Len(t) : t[k] \notin {"\n", "<"}

\* where the scan of in_raw has left the string, the step taken included
StringScanEnd == StringScan(raw_text, context)

\* C27: the scan of a text in CSSDQ_STR or CSSSQ_STR returns to CSS at the
\* first delimiter quote preceded by an even number of consecutive
\* backslashes, having consumed the text up to that quote, and stays in
\* the string if the text has no such quote.
C27_StringEnd ==
    pc = "scanned" /\ in_ctx \in CssStrContexts /\ OneLine(in_raw) =>
        \E k \in {FirstUnescapedQuote(in_raw, StringQuote(state_of(in_ctx)))} :
           IF k > 0
           THEN /\ state_of(StringScanEnd.ctx) = "CSS"
                /\ Len(in_raw) - StringScanEnd.left = k
           ELSE state_of(StringScanEnd.ctx) = state_of(in_ctx)

\* what the tables do instead: every quote directly preceded by a
\* backslash is taken as escaped, however many backslashes precede it
QuoteAfterBackslashKept ==
    pc = "scanned" /\ in_ctx \in CssStrContexts /\ OneLine(in_raw) =>
        \E k \in {FirstQuoteNotAfterBackslash(in_raw,
                                              StringQuote(state_of(in_ctx)))} :
           IF k > 0
           THEN /\ state_of(StringScanEnd.ctx) = "CSS"
                /\ Len(in_raw) - StringScanEnd.left = k
           ELSE state_of(StringScanEnd.ctx) = state_of(in_ctx)

\* two backslashes and the quote scanned in CSSDQ_STR: the escape rule
\* matched the second backslash with the quote and the string is still open
C27_StillOpen ==
    /\ pc = "scanned"
    /\ state_of(in_ctx) = "CSSDQ_STR"
    /\ in_raw = <<"\\", "\\", "\"">>
    /\ raw_text = <<>>
    /\ state_of(context) = "CSSDQ_STR"
====
